---- MODULE Spec2Model ----
(***************************************************************************)
(* Fantasy football tracker: the transfer market, the transfer offers, the *)
(* team pages and the league forms of the React client, together with the *)
(* league server they talk to.                                             *)
(*                                                                         *)
(* The client components are modelled from the sources under frontend/.    *)
(* The server (backend/src/services/transfer_service.py, the team and      *)
(* league services and the matchday scorer) is not part of the sources at  *)
(* hand; its operations are modelled from sections 3 and 4 of the          *)
(* specification and are the definitions whose names start with Srv, with  *)
(* the Serve actions that apply them.                                      *)
(*                                                                         *)
(* Each component keeps its React state in one record variable whose       *)
(* fields carry the names of the useState hooks.  An HTTP call is a        *)
(* message that the server answers in a step of its own, so that anything  *)
(* may happen between a click, the server's answer and its arrival.        *)
(***************************************************************************)
EXTENDS Integers, Sequences, FiniteSets, TLC

VARIABLES
    roster,            \* server: league team -> set of players it owns
    budget,            \* server: league team -> remaining budget
    offers,            \* server: offer id -> transfer offer
    now,               \* server clock
    transferOffers,    \* state of the TransferOffers component
    offersNet,         \* HTTP calls of TransferOffers in flight
    offersLog,         \* history: the offers TransferOffers acted on with success
    freeAgentTransfer, \* state of the FreeAgentTransfer component
    faNet,             \* HTTP call of FreeAgentTransfer in flight
    faLog,             \* history: what FreeAgentTransfer sent and was refused
    userTransferMarket, \* state of the UserTransferMarket component
    marketNet,         \* HTTP call of UserTransferMarket in flight
    fantasyTeam,       \* server: the fantasy team of the team page
    teamDetailPage,    \* state of TeamDetailPage and its PlayerBrowser
    teamNet,           \* HTTP calls of the team page in flight
    leagues,           \* server: league id -> league
    joinLeagueModal,   \* state of the JoinLeagueModal component
    myFantasyLeagues,  \* state of the join form of MyFantasyLeagues
    updateLeagueModal, \* state of the UpdateLeagueModal component
    leagueNet,         \* HTTP calls of the league components in flight
    matchdayStats,     \* server: the statistics of a player in a matchday, scored
    users,             \* server: the registered users
    session,           \* server: the user of the browser's session
    authProvider,      \* state of the AuthProvider component
    location,          \* the router's current path
    loginForm,         \* state of the LoginForm component
    registerForm,      \* state of the RegisterForm component
    authNet,           \* HTTP calls of AuthProvider in flight
    playerBrowser,     \* state of the PlayerBrowser component: filters and list
    searchNet,         \* calls of fantasyAPI.searchPlayers in flight
    fantasyTeams,      \* server: the fantasy teams of the user
    fantasyTeamsList,  \* state of the FantasyTeamsList component
    teamsNet,          \* HTTP calls of FantasyTeamsList in flight
    teamsLog,          \* history: the teams FantasyTeamsList deleted or renamed
    userLeagues,       \* server: the leagues the user is a member of
    leagueManager,     \* state of the LeagueManager component
    managerNet         \* HTTP calls of LeagueManager in flight

vars == <<roster, budget, offers, now, transferOffers, offersNet, offersLog,
          freeAgentTransfer, faNet, faLog, userTransferMarket, marketNet,
          fantasyTeam, teamDetailPage, teamNet, leagues, joinLeagueModal,
          myFantasyLeagues, updateLeagueModal, leagueNet, matchdayStats,
          users, session, authProvider, location, loginForm, registerForm,
          authNet, playerBrowser, searchNet, fantasyTeams, fantasyTeamsList,
          teamsNet, teamsLog, userLeagues, leagueManager, managerNet>>

serverVars == <<roster, budget, offers, now>>

offersVars == <<transferOffers, offersNet, offersLog>>

faVars == <<freeAgentTransfer, faNet, faLog>>

marketVars == <<userTransferMarket, marketNet>>

teamVars == <<fantasyTeam, teamDetailPage, teamNet>>

leagueVars ==
    <<leagues, joinLeagueModal, myFantasyLeagues, updateLeagueModal, leagueNet>>

scoreVars == <<matchdayStats>>

authVars ==
    <<users, session, authProvider, location, loginForm, registerForm, authNet>>

\* The application shell and the pages reached through it.
browserVars == <<playerBrowser, searchNet>>

listVars == <<fantasyTeams, fantasyTeamsList, teamsNet, teamsLog>>

managerVars == <<userLeagues, leagueManager, managerNet>>

appVars == <<authVars, browserVars, listVars, managerVars>>

\* What the steps of one page leave alone.
notOffersVars ==
    <<faVars, marketVars, teamVars, leagueVars, scoreVars, appVars>>

notMarketVars ==
    <<offersVars, faVars, teamVars, leagueVars, scoreVars, appVars>>

notTeamVars ==
    <<serverVars, offersVars, faVars, marketVars, leagueVars, scoreVars, appVars>>

notFaVars ==
    <<offersVars, marketVars, teamVars, leagueVars, scoreVars, appVars>>

notLeagueVars ==
    <<serverVars, offersVars, faVars, marketVars, teamVars, scoreVars, appVars>>

(***************************************************************************)
(* Bounds and data                                                         *)
(***************************************************************************)
MaxTime == 2
MaxInflight == 1
NumPlayers == 13
MaxDropChoices == 2
MaxTransfers == 2
NumListed == 4
MaxAdds == 2
TotalBudget == 4
MaxCaptainCalls == 2

\* How far above the maximum of a position the rosters of the formation rule go.
MaxOver == 1
NumLeagues == 2
MaxLeagueSize == 3
MaxMinutes == 120

Me == 1
Teams == {1, 2, 3}
Players == 1 .. NumPlayers
NoPlayer == 0

\* Offer time-to-live ("expires_at = creation time + fixed TTL window").
TTL == 1
\* Squad limit of a team.
SquadMax == 15
\* Size from which the squad of a league team counts as full.
SrvSquadFull == 11

Price(p) == 1 + (p % 3)

Terminal == {"accepted", "rejected", "cancelled", "expired"}

(***************************************************************************)
(* Server: transfer offers (specification 4.4)                             *)
(***************************************************************************)
SrvIsExpired(o) == now >= offers[o].expires_at

SrvState == [roster |-> roster, budget |-> budget, offers |-> offers]

SrvFail(kind) == [ok |-> FALSE, err |-> kind, state |-> SrvState]

\* A pending offer found past its expiry is settled as expired.
SrvExpire(o) ==
    [ok |-> FALSE, err |-> "ExpiredOfferError",
     state |-> [SrvState EXCEPT !.offers[o].status = "expired"]]

SrvReferences(off, moved) ==
    \/ off.player \in moved
    \/ off.player_offered \in moved
    \/ off.player_out \in moved

\* Mutant: the accepted offer is marked, the competing offers are left pending.
SrvInvalidate_OnlyAccepted(o, moved) ==
    [i \in DOMAIN offers |->
        IF i = o THEN [offers[i] EXCEPT !.status = "accepted"] ELSE offers[i]]

\* The offers after offer o was accepted: o is accepted and every other
\* pending offer that references a transferred player is invalidated.
SrvInvalidate(o, moved) ==
    [i \in DOMAIN offers |->
        IF i = o THEN [offers[i] EXCEPT !.status = "accepted"]
        ELSE IF offers[i].status = "pending" /\ SrvReferences(offers[i], moved)
             THEN [offers[i] EXCEPT !.status = "rejected"]
             ELSE offers[i]]

\* The rosters and budgets after offer off was settled.
SrvSettleRoster(off) ==
    [t \in Teams |->
        IF t = off.from
        THEN (roster[t] \ {off.player_offered, off.player_out}) \cup {off.player}
        ELSE IF t = off.to
        THEN (roster[t] \ {off.player})
                 \cup (IF off.offer_type = "player_exchange"
                       THEN {off.player_offered} ELSE {})
        ELSE roster[t]]

SrvSettleBudget(off) ==
    [t \in Teams |->
        IF off.offer_type # "money" THEN budget[t]
        ELSE IF t = off.from THEN budget[t] - off.money_offered
        ELSE IF t = off.to THEN budget[t] + off.money_offered
        ELSE budget[t]]

\* The state both sides must still be in at acceptance time.
SrvStillValid(off) ==
    /\ off.player \in roster[off.to]
    /\ off.offer_type = "player_exchange" => off.player_offered \in roster[off.from]
    /\ off.player_out # NoPlayer => off.player_out \in roster[off.from]

\* Mutant: the expiry is not looked at when the offer is accepted.
SrvAccept_NoExpiry(o, caller) ==
    LET off == offers[o] IN
    IF caller # off.to THEN SrvFail("ValidationError")
    ELSE IF off.status # "pending" THEN SrvFail("StaleOfferError")
    ELSE IF ~SrvStillValid(off) THEN SrvFail("StaleOfferError")
    ELSE IF off.offer_type = "money" /\ off.money_offered > budget[off.from]
         THEN SrvFail("InsufficientBudgetError")
    ELSE [ok |-> TRUE, err |-> "",
          state |-> [roster |-> SrvSettleRoster(off),
                     budget |-> SrvSettleBudget(off),
                     offers |-> SrvInvalidate(o,
                                   {off.player, off.player_offered} \ {NoPlayer})]]

SrvAccept(o, caller) ==
    LET off == offers[o] IN
    IF caller # off.to THEN SrvFail("ValidationError")
    ELSE IF off.status # "pending" THEN SrvFail("StaleOfferError")
    ELSE IF SrvIsExpired(o) THEN SrvExpire(o)
    ELSE IF ~SrvStillValid(off) THEN SrvFail("StaleOfferError")
    ELSE IF off.offer_type = "money" /\ off.money_offered > budget[off.from]
         THEN SrvFail("InsufficientBudgetError")
    ELSE [ok |-> TRUE, err |-> "",
          state |-> [roster |-> SrvSettleRoster(off),
                     budget |-> SrvSettleBudget(off),
                     offers |-> SrvInvalidate(o,
                                   {off.player, off.player_offered} \ {NoPlayer})]]

SrvReject(o, caller) ==
    LET off == offers[o] IN
    IF caller # off.to THEN SrvFail("ValidationError")
    ELSE IF off.status # "pending" THEN SrvFail("StaleOfferError")
    ELSE IF SrvIsExpired(o) THEN SrvExpire(o)
    ELSE [ok |-> TRUE, err |-> "",
          state |-> [SrvState EXCEPT !.offers[o].status = "rejected"]]

SrvCancel(o, caller) ==
    LET off == offers[o] IN
    IF caller # off.from THEN SrvFail("ValidationError")
    ELSE IF off.status # "pending" THEN SrvFail("StaleOfferError")
    ELSE IF SrvIsExpired(o) THEN SrvExpire(o)
    ELSE [ok |-> TRUE, err |-> "",
          state |-> [SrvState EXCEPT !.offers[o].status = "cancelled"]]

SrvOfferOp(kind, o, caller) ==
    CASE kind = "accept" -> SrvAccept(o, caller)
      [] kind = "reject" -> SrvReject(o, caller)
      [] kind = "cancel" -> SrvCancel(o, caller)

\* What the offers endpoint returns for one offer.
SrvOfferView(o) ==
    [id |-> o, status |-> offers[o].status, is_expired |-> SrvIsExpired(o)]

SrvGetOffers(team, direction) ==
    {SrvOfferView(o) : o \in {i \in DOMAIN offers :
        /\ offers[i].status # "none"
        /\ IF direction = "received" THEN offers[i].to = team
                                     ELSE offers[i].from = team}}

\* Validation of a new offer.
SrvOfferValid(req, caller) ==
    /\ req.to_team_id \in Teams \ {caller}
    /\ req.player_id \in roster[req.to_team_id]
    /\ req.offer_type = "money" =>
          /\ req.money_offered > 0
          /\ Cardinality(roster[caller]) >= SrvSquadFull => req.player_out_id # NoPlayer
          /\ req.player_out_id # NoPlayer => req.player_out_id \in roster[caller]
    /\ req.offer_type = "player_exchange" =>
          req.player_offered_id \in roster[caller]

SrvNewOffer(req, caller) ==
    [from |-> caller, to |-> req.to_team_id, player |-> req.player_id,
     offer_type |-> req.offer_type,
     money_offered |-> req.money_offered,
     player_offered |-> req.player_offered_id,
     player_out |-> req.player_out_id,
     status |-> "pending", expires_at |-> now + TTL]

\* The new offer is stored under the id the server gives it.
SrvCreateOffer(req, caller, id) ==
    IF ~SrvOfferValid(req, caller) THEN SrvFail("ValidationError")
    ELSE [ok |-> TRUE, err |-> "",
          state |-> [SrvState EXCEPT !.offers[id] = SrvNewOffer(req, caller)]]

SrvApply(res) ==
    /\ roster' = res.state.roster
    /\ budget' = res.state.budget
    /\ offers' = res.state.offers

(***************************************************************************)
(* Server: free-agent transfer (specification 4.4)                         *)
(***************************************************************************)
SrvOwned == UNION {roster[t] : t \in Teams}

SrvFreeAgents == Players \ SrvOwned

\* net cost = price(player_in) - price(player_out, default 0)
SrvNetCost(playerIn, playerOut) ==
    Price(playerIn) - (IF playerOut = NoPlayer THEN 0 ELSE Price(playerOut))

SrvTransferResult(team, playerIn, playerOut) ==
    [ok |-> TRUE, err |-> "",
     state |-> [SrvState EXCEPT
                  !.roster[team] = (@ \ {playerOut}) \cup {playerIn},
                  !.budget[team] = @ - SrvNetCost(playerIn, playerOut)]]

\* Mutant: the net cost is not held against the remaining budget.
SrvFreeAgentTransfer_NoBudgetCheck(team, playerIn, playerOut) ==
    IF playerIn \in SrvOwned THEN SrvFail("ValidationError")
    ELSE IF playerOut # NoPlayer /\ playerOut \notin roster[team]
         THEN SrvFail("ValidationError")
    ELSE IF Cardinality(roster[team]) >= SrvSquadFull /\ playerOut = NoPlayer
         THEN SrvFail("ValidationError")
    ELSE SrvTransferResult(team, playerIn, playerOut)

\* The formation check of the resulting roster is not modelled: it can only
\* refuse more transfers, with FormationError and without touching the state.
SrvFreeAgentTransfer(team, playerIn, playerOut) ==
    IF playerIn \in SrvOwned THEN SrvFail("ValidationError")
    ELSE IF playerOut # NoPlayer /\ playerOut \notin roster[team]
         THEN SrvFail("ValidationError")
    ELSE IF Cardinality(roster[team]) >= SrvSquadFull /\ playerOut = NoPlayer
         THEN SrvFail("ValidationError")
    ELSE IF SrvNetCost(playerIn, playerOut) > budget[team]
         THEN SrvFail("InsufficientBudgetError")
    ELSE SrvTransferResult(team, playerIn, playerOut)

(***************************************************************************)
(* Client: TransferOffers.tsx                                              *)
(***************************************************************************)
NoMsg == [kind |-> "none", offer |-> 0, stage |-> "", ok |-> FALSE, err |-> ""]

Slots == 1 .. MaxInflight

FreeSlots(netw) == {s \in Slots : netw[s] = NoMsg}

\* The slot a new call takes.
NewSlot(netw) == CHOOSE s \in FreeSlots(netw) : \A t \in FreeSlots(netw) : s <= t

\* transferService.getTransferOffers, both directions (Promise.all).
LoadRequest == [NoMsg EXCEPT !.kind = "load", !.stage = "req"]

\* transferService.acceptTransferOffer / rejectTransferOffer / cancelTransferOffer.
OfferRequest(kind, offerId) ==
    [NoMsg EXCEPT !.kind = kind, !.offer = offerId, !.stage = "req"]

\* Mutant: the buttons are rendered for any pending offer, expired or not.
ShowAcceptReject_NoExpiry(offer, type) ==
    type = "received" /\ offer.status = "pending"

\* Mutant: the buttons are rendered in the sent list as well.
ShowAcceptReject_AnyList(offer, type) ==
    offer.status = "pending" /\ ~offer.is_expired

\* renderOffer: the condition under which the Accept and Reject buttons are
\* rendered for an offer of the list of the given type.
ShowAcceptReject(offer, type) ==
    type = "received" /\ offer.status = "pending" /\ ~offer.is_expired

\* Mutant: the button is rendered whatever the status of the offer.
ShowCancel_AnyStatus(offer, type) ==
    type = "sent" /\ ~offer.is_expired

\* renderOffer: the condition under which the Cancel button is rendered.
ShowCancel(offer, type) ==
    type = "sent" /\ offer.status = "pending" /\ ~offer.is_expired

\* The list the component renders: nothing while loading, else the list of
\* the active tab.
DisplayedOffers ==
    IF transferOffers.loading THEN {}
    ELSE IF transferOffers.activeTab = "received"
         THEN transferOffers.receivedOffers
         ELSE transferOffers.sentOffers

AcceptShown(id) ==
    \E v \in DisplayedOffers : v.id = id /\ ShowAcceptReject(v, transferOffers.activeTab)

CancelShown(id) ==
    \E v \in DisplayedOffers : v.id = id /\ ShowCancel(v, transferOffers.activeTab)

\* A click on a rendered button, confirmed in window.confirm: the call leaves.
\* (A click declined in window.confirm returns without any effect.)
SendOfferRequest(kind, offerId) ==
    /\ FreeSlots(offersNet) # {}
    /\ offersNet' = [offersNet EXCEPT ![NewSlot(offersNet)] = OfferRequest(kind, offerId)]
    /\ UNCHANGED <<serverVars, transferOffers, offersLog, notOffersVars>>

handleAccept(offerId) == AcceptShown(offerId) /\ SendOfferRequest("accept", offerId)

handleReject(offerId) == AcceptShown(offerId) /\ SendOfferRequest("reject", offerId)

handleCancel(offerId) == CancelShown(offerId) /\ SendOfferRequest("cancel", offerId)

\* The rest of handleAccept / handleReject / handleCancel, once the call has
\* returned: on success loadOffers() (which sets loading and sends the two
\* reads); on failure the alert of the error's detail, which changes no state.
OfferRequestDone(s) ==
    LET m == offersNet[s] IN
    /\ m.kind \in {"accept", "reject", "cancel"}
    /\ m.stage = "resp"
    /\ IF m.ok
       THEN /\ transferOffers' = [transferOffers EXCEPT !.loading = TRUE]
            /\ offersNet' = [offersNet EXCEPT ![s] = LoadRequest]
            /\ offersLog' = offersLog \cup {m.offer}
       ELSE /\ UNCHANGED <<transferOffers, offersLog>>
            /\ offersNet' = [offersNet EXCEPT ![s] = NoMsg]
    /\ UNCHANGED <<serverVars, notOffersVars>>

\* loadOffers, once Promise.all has settled with the two lists the server
\* returns (GET .../transfers/offers?direction=received and ?direction=sent);
\* the lists are installed as the server holds them when it answers.
loadOffersDone(s) ==
    /\ offersNet[s].kind = "load"
    /\ offersNet[s].stage = "req"
    /\ transferOffers' = [transferOffers EXCEPT
          !.receivedOffers = SrvGetOffers(Me, "received"),
          !.sentOffers = SrvGetOffers(Me, "sent"),
          !.loading = FALSE]
    /\ offersNet' = [offersNet EXCEPT ![s] = NoMsg]
    /\ UNCHANGED <<serverVars, offersLog, notOffersVars>>

\* loadOffers, once Promise.all has rejected: the lists stay as they were.
loadOffersFailed(s) ==
    /\ offersNet[s].kind = "load"
    /\ offersNet[s].stage = "resp"
    /\ ~offersNet[s].ok
    /\ transferOffers' = [transferOffers EXCEPT !.loading = FALSE]
    /\ offersNet' = [offersNet EXCEPT ![s] = NoMsg]
    /\ UNCHANGED <<serverVars, offersLog, notOffersVars>>

setActiveTab(tab) ==
    /\ ~transferOffers.loading
    /\ transferOffers.activeTab # tab
    /\ transferOffers' = [transferOffers EXCEPT !.activeTab = tab]
    /\ UNCHANGED <<serverVars, offersNet, offersLog, notOffersVars>>

(***************************************************************************)
(* The server answering the calls of TransferOffers                        *)
(***************************************************************************)
\* PUT .../accept, PUT .../reject, DELETE ...: the session's team is the caller.
ServeOfferRequest(s) ==
    LET m == offersNet[s]
        res == SrvOfferOp(m.kind, m.offer, Me) IN
    /\ m.kind \in {"accept", "reject", "cancel"}
    /\ m.stage = "req"
    /\ SrvApply(res)
    /\ offersNet' = [offersNet EXCEPT ![s].stage = "resp", ![s].ok = res.ok,
                                      ![s].err = res.err]
    /\ UNCHANGED <<now, transferOffers, offersLog, notOffersVars>>

\* A call that fails on the way to the server.
OffersNetworkError(s) ==
    /\ offersNet[s] # NoMsg
    /\ offersNet[s].stage = "req"
    /\ offersNet' = [offersNet EXCEPT ![s].stage = "resp", ![s].ok = FALSE,
                                      ![s].err = "Network Error"]
    /\ UNCHANGED <<serverVars, transferOffers, offersLog, notOffersVars>>

(***************************************************************************)
(* Client: FreeAgentTransfer in TransferPage.tsx                           *)
(***************************************************************************)
\* Squad size from which the page asks for a player to drop.
DropRequiredFrom == 11

MustDropMessage == "You must select a player to drop (team has 11 players)"

NoCall ==
    [kind |-> "none", stage |-> "", player_in_id |-> NoPlayer,
     player_out_id |-> NoPlayer, ok |-> FALSE, reply |-> "", err |-> ""]

MyTeamRequest == [NoCall EXCEPT !.kind = "my-team", !.stage = "req"]

AvailableRequest == [NoCall EXCEPT !.kind = "available", !.stage = "req"]

\* transferService.executeFreeAgentTransfer: player_out_id stays undefined
\* (NoPlayer) when no player to drop is selected.
TransferRequest(playerIn, playerOut) ==
    [NoCall EXCEPT !.kind = "transfer", !.stage = "req",
                   !.player_in_id = playerIn, !.player_out_id = playerOut]

NoRequest == [player_in_id |-> NoPlayer, player_out_id |-> NoPlayer,
              squadSize |-> 0, err |-> ""]

FreeAgentNotMounted ==
    /\ freeAgentTransfer =
          [availablePlayers |-> {}, myPlayers |-> {}, loading |-> FALSE,
           error |-> "", success |-> "", selectedPlayerIn |-> NoPlayer,
           selectedPlayerOut |-> NoPlayer, showDialog |-> FALSE]
    /\ faNet = NoCall
    /\ faLog = [sent |-> NoRequest, failed |-> NoRequest, transfers |-> 0]

\* The players of the dialog's list the user picks the player to drop from.
DropChoices == {p \in freeAgentTransfer.myPlayers : p <= MaxDropChoices}

\* The disabled attribute of the Confirm Transfer button.
ConfirmDisabled ==
    \/ freeAgentTransfer.loading
    \/ /\ Cardinality(freeAgentTransfer.myPlayers) >= DropRequiredFrom
       /\ freeAgentTransfer.selectedPlayerOut = NoPlayer

\* Mutant: a player to drop is asked for only above 11 players.
MustSelectPlayerOut_Above ==
    /\ Cardinality(freeAgentTransfer.myPlayers) > DropRequiredFrom
    /\ freeAgentTransfer.selectedPlayerOut = NoPlayer

\* handleExecuteTransfer: squadSize >= 11 && !selectedPlayerOut
MustSelectPlayerOut ==
    /\ Cardinality(freeAgentTransfer.myPlayers) >= DropRequiredFrom
    /\ freeAgentTransfer.selectedPlayerOut = NoPlayer

\* loadData, first await: the team's players arrive and the available players
\* are asked for.
myTeamLoaded ==
    /\ faNet = MyTeamRequest
    /\ freeAgentTransfer' = [freeAgentTransfer EXCEPT !.myPlayers = roster[Me]]
    /\ faNet' = AvailableRequest
    /\ UNCHANGED <<serverVars, faLog, notFaVars>>

\* loadData, first await: an answer without a players field (myTeamData.players
\* || []), as an error body is; fetch does not throw on an HTTP error status.
myTeamWithoutPlayers ==
    /\ faNet = MyTeamRequest
    /\ freeAgentTransfer' = [freeAgentTransfer EXCEPT !.myPlayers = {}]
    /\ faNet' = AvailableRequest
    /\ UNCHANGED <<serverVars, faLog, notFaVars>>

\* loadData: fetch throws; catch and finally.
myTeamFailed ==
    /\ faNet = MyTeamRequest
    /\ freeAgentTransfer' = [freeAgentTransfer EXCEPT !.error = "Failed to fetch",
                                                      !.loading = FALSE]
    /\ faNet' = NoCall
    /\ UNCHANGED <<serverVars, faLog, notFaVars>>

\* loadAvailablePlayers answered, then the finally of loadData.
availablePlayersLoaded ==
    /\ faNet = AvailableRequest
    /\ freeAgentTransfer' = [freeAgentTransfer EXCEPT
                                !.availablePlayers = SrvFreeAgents,
                                !.loading = FALSE]
    /\ faNet' = NoCall
    /\ UNCHANGED <<serverVars, faLog, notFaVars>>

\* loadAvailablePlayers: catch, then the finally of loadData.
availablePlayersFailed ==
    /\ faNet = AvailableRequest
    /\ freeAgentTransfer' = [freeAgentTransfer EXCEPT !.error = "Network Error",
                                                      !.loading = FALSE]
    /\ faNet' = NoCall
    /\ UNCHANGED <<serverVars, faLog, notFaVars>>

\* The Buy button of an available player; the list is replaced by "Loading..."
\* while loading && !showDialog, and lies under the dialog while it is shown.
handleTransferClick(player) ==
    /\ ~freeAgentTransfer.loading
    /\ ~freeAgentTransfer.showDialog
    /\ player \in freeAgentTransfer.availablePlayers
    /\ freeAgentTransfer' = [freeAgentTransfer EXCEPT !.selectedPlayerIn = player,
                                                      !.showDialog = TRUE]
    /\ UNCHANGED <<serverVars, faNet, faLog, notFaVars>>

setSelectedPlayerOut(player) ==
    /\ freeAgentTransfer.showDialog
    /\ player \in DropChoices
    /\ player # freeAgentTransfer.selectedPlayerOut
    /\ freeAgentTransfer' = [freeAgentTransfer EXCEPT !.selectedPlayerOut = player]
    /\ UNCHANGED <<serverVars, faNet, faLog, notFaVars>>

\* The Cancel button of the dialog.
closeDialog ==
    /\ freeAgentTransfer.showDialog
    /\ freeAgentTransfer' = [freeAgentTransfer EXCEPT !.showDialog = FALSE]
    /\ UNCHANGED <<serverVars, faNet, faLog, notFaVars>>

\* handleExecuteTransfer up to the call.  The action is the handler as its own
\* code guards it, taken while no call is in flight; the Confirm button that
\* runs it carries ConfirmDisabled.
handleExecuteTransfer ==
    /\ freeAgentTransfer.showDialog
    /\ ~freeAgentTransfer.loading
    /\ freeAgentTransfer.selectedPlayerIn # NoPlayer
    /\ IF MustSelectPlayerOut
       THEN /\ freeAgentTransfer' =
                  [freeAgentTransfer EXCEPT !.error = MustDropMessage]
            /\ UNCHANGED <<faNet, faLog>>
       ELSE /\ faLog.transfers < MaxTransfers
            /\ freeAgentTransfer' =
                  [freeAgentTransfer EXCEPT !.loading = TRUE, !.error = "",
                                            !.success = ""]
            /\ faNet' = TransferRequest(freeAgentTransfer.selectedPlayerIn,
                                        freeAgentTransfer.selectedPlayerOut)
            /\ faLog' = [faLog EXCEPT !.sent =
                  [player_in_id |-> freeAgentTransfer.selectedPlayerIn,
                   player_out_id |-> freeAgentTransfer.selectedPlayerOut,
                   squadSize |-> Cardinality(freeAgentTransfer.myPlayers),
                   err |-> ""]]
    /\ UNCHANGED <<serverVars, notFaVars>>

\* The server settles the transfer.  A refusal reaches the client either as a
\* result with success false and an errors list, or as an HTTP error status.
ServeTransfer(reply) ==
    LET res == SrvFreeAgentTransfer(Me, faNet.player_in_id, faNet.player_out_id) IN
    /\ faNet.kind = "transfer"
    /\ faNet.stage = "req"
    /\ SrvApply(res)
    /\ reply = "result" \/ ~res.ok
    /\ faNet' = [faNet EXCEPT !.stage = "resp", !.ok = res.ok, !.reply = reply,
                              !.err = res.err]
    /\ faLog' = [faLog EXCEPT !.transfers = IF res.ok THEN @ + 1 ELSE @]
    /\ UNCHANGED <<now, freeAgentTransfer, notFaVars>>

\* The call does not reach the server.
TransferNetworkError ==
    /\ faNet.kind = "transfer"
    /\ faNet.stage = "req"
    /\ faNet' = [faNet EXCEPT !.stage = "resp", !.ok = FALSE, !.reply = "network",
                              !.err = "Network Error"]
    /\ UNCHANGED <<serverVars, freeAgentTransfer, faLog, notFaVars>>

\* What setError is given for a transfer that did not succeed: the errors of
\* the result, or err.message of the exception axios throws.
TransferErrorText(call) ==
    CASE call.reply = "result" -> call.err
      [] call.reply = "http" -> "Request failed with status code"
      [] call.reply = "network" -> "Network Error"

\* handleExecuteTransfer after the await.
transferDone ==
    /\ faNet.kind = "transfer"
    /\ faNet.stage = "resp"
    /\ IF faNet.ok
       THEN /\ freeAgentTransfer' =
                  [freeAgentTransfer EXCEPT
                      !.success = "Transfer completed successfully!",
                      !.showDialog = FALSE,
                      !.selectedPlayerIn = NoPlayer,
                      !.selectedPlayerOut = NoPlayer,
                      !.loading = TRUE, !.error = ""]
            /\ faNet' = MyTeamRequest
            /\ faLog' = [faLog EXCEPT !.failed = NoRequest]
       ELSE /\ freeAgentTransfer' =
                  [freeAgentTransfer EXCEPT !.error = TransferErrorText(faNet),
                                            !.loading = FALSE]
            /\ faNet' = NoCall
            /\ faLog' = [faLog EXCEPT !.failed =
                  [faLog.sent EXCEPT !.err = faNet.err]]
    /\ UNCHANGED <<serverVars, notFaVars>>

(***************************************************************************)
(* Client: UserTransferMarket.tsx                                          *)
(***************************************************************************)
\* What the user may type into the amount field (an input of type number).
MoneyInputs == {"", "0", "1"}

\* parseFloat on the texts above; the empty text gives NaN.
parseFloat(text) ==
    CASE text = "" -> [nan |-> TRUE, value |-> 0]
      [] text = "0" -> [nan |-> FALSE, value |-> 0]
      [] text = "1" -> [nan |-> FALSE, value |-> 1]

\* x <= 0 in JavaScript: false when x is NaN.
LessOrEqualZero(x) == ~x.nan /\ x.value <= 0

MoneyAlert == "Please enter a valid money offer"
PlayerOutAlert == "Please select a player to drop from your squad"
ExchangeAlert == "Please select a player to exchange"
SentAlert == "Transfer offer sent successfully!"
FailedAlert == "Failed to create offer: "

NoOfferCall ==
    [kind |-> "none", stage |-> "", fields |-> {}, to_team_id |-> 0,
     player_id |-> NoPlayer, offer_type |-> "", money_offered |-> 0,
     player_offered_id |-> NoPlayer, player_out_id |-> NoPlayer,
     ok |-> FALSE, reply |-> "", err |-> ""]

TeamsRequest == [NoOfferCall EXCEPT !.kind = "teams", !.stage = "req"]

\* Mutant: every field of the form is sent, whatever the offer type.
CreateOfferData_AllFields ==
    [NoOfferCall EXCEPT
        !.kind = "create", !.stage = "req",
        !.fields = {"to_team_id", "player_id", "offer_type", "money_offered",
                    "player_offered_id", "player_out_id"},
        !.to_team_id = userTransferMarket.selectedTeam,
        !.player_id = userTransferMarket.selectedPlayer,
        !.offer_type = userTransferMarket.offerType,
        !.money_offered = parseFloat(userTransferMarket.moneyOffer).value,
        !.player_offered_id = userTransferMarket.playerExchange,
        !.player_out_id = userTransferMarket.playerOut]

\* The data handleCreateOffer gives createTransferOffer; a field set to
\* undefined is not part of the JSON body.
CreateOfferData ==
    LET money == userTransferMarket.offerType = "money"
        exchange == userTransferMarket.offerType = "player_exchange" IN
    [NoOfferCall EXCEPT
        !.kind = "create", !.stage = "req",
        !.fields = {"to_team_id", "player_id", "offer_type"}
                     \cup (IF money THEN {"money_offered"} ELSE {})
                     \cup (IF exchange /\ userTransferMarket.playerExchange # NoPlayer
                           THEN {"player_offered_id"} ELSE {})
                     \cup (IF money /\ userTransferMarket.playerOut # NoPlayer
                           THEN {"player_out_id"} ELSE {}),
        !.to_team_id = userTransferMarket.selectedTeam,
        !.player_id = userTransferMarket.selectedPlayer,
        !.offer_type = userTransferMarket.offerType,
        !.money_offered =
            IF money THEN parseFloat(userTransferMarket.moneyOffer).value ELSE 0,
        !.player_offered_id =
            IF exchange THEN userTransferMarket.playerExchange ELSE NoPlayer,
        !.player_out_id = IF money THEN userTransferMarket.playerOut ELSE NoPlayer]

MarketUnmounted ==
    [teams |-> [t \in {} |-> {}], selectedTeam |-> 0, selectedPlayer |-> NoPlayer,
     offerType |-> "money", moneyOffer |-> "", playerExchange |-> NoPlayer,
     playerOut |-> NoPlayer, loading |-> FALSE, submitting |-> FALSE,
     error |-> "", myPlayers |-> {}, alert |-> ""]

MarketNotMounted ==
    /\ userTransferMarket = MarketUnmounted
    /\ marketNet = NoOfferCall

\* getLeagueTeams: every team of the league with its players, the caller's own
\* team flagged is_current_user.
SrvLeagueTeams(caller) ==
    [t \in Teams |-> [players |-> roster[t], is_current_user |-> t = caller]]

\* Mutant: the user's own team is not filtered out.
loadTeamsDone_AllTeams ==
    LET response == SrvLeagueTeams(Me)
        otherTeams == DOMAIN response
        currentTeam == {t \in DOMAIN response : response[t].is_current_user} IN
    /\ marketNet = TeamsRequest
    /\ userTransferMarket' =
          [userTransferMarket EXCEPT
              !.teams = [t \in otherTeams |-> response[t].players],
              !.myPlayers = IF currentTeam # {}
                            THEN UNION {response[t].players : t \in currentTeam}
                            ELSE @,
              !.loading = FALSE]
    /\ marketNet' = NoOfferCall
    /\ UNCHANGED <<serverVars, notMarketVars>>

\* loadTeams answered.
loadTeamsDone ==
    LET response == SrvLeagueTeams(Me)
        otherTeams == {t \in DOMAIN response : ~response[t].is_current_user}
        currentTeam == {t \in DOMAIN response : response[t].is_current_user} IN
    /\ marketNet = TeamsRequest
    /\ userTransferMarket' =
          [userTransferMarket EXCEPT
              !.teams = [t \in otherTeams |-> response[t].players],
              !.myPlayers = IF currentTeam # {}
                            THEN UNION {response[t].players : t \in currentTeam}
                            ELSE @,
              !.loading = FALSE]
    /\ marketNet' = NoOfferCall
    /\ UNCHANGED <<serverVars, notMarketVars>>

\* loadTeams: catch and finally.
loadTeamsFailed ==
    /\ marketNet = TeamsRequest
    /\ userTransferMarket' =
          [userTransferMarket EXCEPT !.error = "Failed to load teams: Network Error",
                                     !.loading = FALSE]
    /\ marketNet' = NoOfferCall
    /\ UNCHANGED <<serverVars, notMarketVars>>

\* A team button: setSelectedTeam(team); setSelectedPlayer(null).
setSelectedTeam(team) ==
    /\ ~userTransferMarket.loading
    /\ team \in DOMAIN userTransferMarket.teams
    /\ userTransferMarket' = [userTransferMarket EXCEPT !.selectedTeam = team,
                                                        !.selectedPlayer = NoPlayer]
    /\ UNCHANGED <<serverVars, marketNet, notMarketVars>>

setSelectedPlayer(player) ==
    /\ ~userTransferMarket.loading
    /\ userTransferMarket.selectedTeam # 0
    /\ player \in userTransferMarket.teams[userTransferMarket.selectedTeam]
    /\ player # userTransferMarket.selectedPlayer
    /\ userTransferMarket' = [userTransferMarket EXCEPT !.selectedPlayer = player]
    /\ UNCHANGED <<serverVars, marketNet, notMarketVars>>

\* The offer form is rendered once a player is selected.
FormShown == ~userTransferMarket.loading /\ userTransferMarket.selectedPlayer # NoPlayer

setOfferType(type) ==
    /\ FormShown
    /\ type # userTransferMarket.offerType
    /\ userTransferMarket' = [userTransferMarket EXCEPT !.offerType = type]
    /\ UNCHANGED <<serverVars, marketNet, notMarketVars>>

setMoneyOffer(text) ==
    /\ FormShown
    /\ userTransferMarket.offerType = "money"
    /\ text # userTransferMarket.moneyOffer
    /\ userTransferMarket' = [userTransferMarket EXCEPT !.moneyOffer = text]
    /\ UNCHANGED <<serverVars, marketNet, notMarketVars>>

setPlayerOut(player) ==
    /\ FormShown
    /\ userTransferMarket.offerType = "money"
    /\ player \in userTransferMarket.myPlayers
    /\ player # userTransferMarket.playerOut
    /\ userTransferMarket' = [userTransferMarket EXCEPT !.playerOut = player]
    /\ UNCHANGED <<serverVars, marketNet, notMarketVars>>

setPlayerExchange(player) ==
    /\ FormShown
    /\ userTransferMarket.offerType = "player_exchange"
    /\ player \in userTransferMarket.myPlayers
    /\ player # userTransferMarket.playerExchange
    /\ userTransferMarket' = [userTransferMarket EXCEPT !.playerExchange = player]
    /\ UNCHANGED <<serverVars, marketNet, notMarketVars>>

(***************************************************************************)
(* Server: the fantasy team (specification 3, FantasyTeam)                 *)
(***************************************************************************)
RECURSIVE SumPrices(_)
\* players.reduce((sum, player) => sum + (player.price || 0), 0)
SumPrices(players) ==
    IF players = {} THEN 0
    ELSE LET p == CHOOSE x \in players : TRUE IN Price(p) + SumPrices(players \ {p})

SrvAddFail(kind) == [ok |-> FALSE, err |-> kind, team |-> fantasyTeam]

\* Mutant: a player is added whatever the size of the squad.
SrvAddPlayer_NoSquadLimit(player) ==
    IF player \in fantasyTeam.players THEN SrvAddFail("ValidationError")
    ELSE IF SumPrices(fantasyTeam.players) + Price(player) > fantasyTeam.total_budget
         THEN SrvAddFail("InsufficientBudgetError")
    ELSE [ok |-> TRUE, err |-> "",
          team |-> [fantasyTeam EXCEPT !.players = @ \cup {player}]]

\* Adding a player keeps squad size <= 15 and budget spent <= total budget.
SrvAddPlayer(player) ==
    IF player \in fantasyTeam.players THEN SrvAddFail("ValidationError")
    ELSE IF Cardinality(fantasyTeam.players) >= SquadMax
         THEN SrvAddFail("ValidationError")
    ELSE IF SumPrices(fantasyTeam.players) + Price(player) > fantasyTeam.total_budget
         THEN SrvAddFail("InsufficientBudgetError")
    ELSE [ok |-> TRUE, err |-> "",
          team |-> [fantasyTeam EXCEPT !.players = @ \cup {player}]]

\* GET /fantasy-teams/{id}: FantasyTeamDetail.
SrvTeamDetail ==
    [team |-> [total_budget |-> fantasyTeam.total_budget],
     players |-> fantasyTeam.players,
     captains |-> fantasyTeam.captains,
     vice_captains |-> fantasyTeam.vice_captains]

\* A team that has the given players and no captain yet.  The players flagged
\* is_captain and is_vice_captain are kept as two sets.
SrvTeam(total_budget, players) ==
    [total_budget |-> total_budget, players |-> players,
     captains |-> {}, vice_captains |-> {}]

\* Mutant: the new captain keeps the vice-captaincy he had, and the other way.
SrvSetCaptain_KeepsOtherRole(player, is_vice) ==
    IF player \notin fantasyTeam.players THEN SrvAddFail("NotFoundError")
    ELSE IF is_vice
    THEN [ok |-> TRUE, err |-> "",
          team |-> [fantasyTeam EXCEPT !.vice_captains = {player}]]
    ELSE [ok |-> TRUE, err |-> "",
          team |-> [fantasyTeam EXCEPT !.captains = {player}]]

\* POST /fantasy-teams/{id}/captain: the player takes the role from whoever had
\* it and gives up the other role if he held it, which keeps at most one
\* captain, at most one vice-captain, and the two different.
SrvSetCaptain(player, is_vice) ==
    IF player \notin fantasyTeam.players THEN SrvAddFail("NotFoundError")
    ELSE IF is_vice
    THEN [ok |-> TRUE, err |-> "",
          team |-> [fantasyTeam EXCEPT !.vice_captains = {player},
                                       !.captains = @ \ {player}]]
    ELSE [ok |-> TRUE, err |-> "",
          team |-> [fantasyTeam EXCEPT !.captains = {player},
                                       !.vice_captains = @ \ {player}]]

\* The players a search with no filter lists.
SrvSearchPlayers == {p \in Players : p <= NumListed}

(***************************************************************************)
(* Client: TeamDetailPage.tsx and its PlayerBrowser                        *)
(***************************************************************************)
\* teamDetail before the first answer (null).
NoTeamDetail ==
    [team |-> [total_budget |-> -1], players |-> {}, captains |-> {},
     vice_captains |-> {}]

NoAdd == [stage |-> "none", player_id |-> NoPlayer, ok |-> FALSE, err |-> ""]

\* fantasyAPI.setCaptain with its SetCaptainRequest.
NoCaptainCall ==
    [stage |-> "none", player_id |-> NoPlayer, is_vice |-> FALSE, ok |-> FALSE,
     err |-> ""]

CaptainSlots == 1 .. MaxCaptainCalls

AddSlots == 1 .. MaxAdds

InsufficientAlert == "Insufficient budget for this player"

AddFailedAlert == "Failed to add player: "

TeamPageUnmounted ==
    [teamDetail |-> NoTeamDetail, loading |-> FALSE, error |-> "",
     showPlayerBrowser |-> FALSE,
     players |-> {}, browserLoading |-> FALSE, browserError |-> "",
     currentPlayers |-> {}, alert |-> ""]

TeamNetIdle ==
    [loads |-> 0, search |-> FALSE, adds |-> [i \in AddSlots |-> NoAdd],
     captain |-> [i \in CaptainSlots |-> NoCaptainCall]]

TeamPageNotMounted ==
    /\ fantasyTeam = SrvTeam(0, {})
    /\ teamDetailPage = TeamPageUnmounted
    /\ teamNet = TeamNetIdle

budgetUsed == SumPrices(teamDetailPage.teamDetail.players)

remainingBudget == teamDetailPage.teamDetail.team.total_budget - budgetUsed

\* The page is past its "Loading team details..." and "Team Not Found" screens.
PageShown ==
    /\ ~teamDetailPage.loading
    /\ teamDetailPage.error = ""
    /\ teamDetailPage.teamDetail # NoTeamDetail

BrowserMounted == PageShown /\ teamDetailPage.showPlayerBrowser

\* The state of a PlayerBrowser that is not mounted.
BrowserGone(page) ==
    [page EXCEPT !.showPlayerBrowser = FALSE, !.players = {},
                 !.browserLoading = FALSE, !.browserError = "",
                 !.currentPlayers = {}]

\* loadTeamDetail answered.
loadTeamDetailDone ==
    /\ teamNet.loads > 0
    /\ teamDetailPage' = [teamDetailPage EXCEPT !.teamDetail = SrvTeamDetail,
                                                !.loading = FALSE]
    /\ teamNet' = [teamNet EXCEPT !.loads = @ - 1]
    /\ UNCHANGED <<fantasyTeam, notTeamVars>>

\* loadTeamDetail: catch and finally; the page turns to "Team Not Found".
loadTeamDetailFailed ==
    /\ teamNet.loads > 0
    /\ teamDetailPage' = [BrowserGone(teamDetailPage) EXCEPT
                             !.error = "Failed to load team details",
                             !.loading = FALSE]
    /\ teamNet' = [teamNet EXCEPT !.loads = @ - 1, !.search = FALSE]
    /\ UNCHANGED <<fantasyTeam, notTeamVars>>

\* The Add Players button: the PlayerBrowser is mounted and its effect runs
\* searchPlayers, whose closure holds the currentPlayers of this render.
openPlayerBrowser ==
    /\ PageShown
    /\ ~teamDetailPage.showPlayerBrowser
    /\ teamDetailPage' = [teamDetailPage EXCEPT
                             !.showPlayerBrowser = TRUE, !.browserLoading = TRUE,
                             !.currentPlayers = teamDetailPage.teamDetail.players]
    /\ teamNet' = [teamNet EXCEPT !.search = TRUE]
    /\ UNCHANGED <<fantasyTeam, notTeamVars>>

\* searchPlayers answered: the players already in the team are filtered out.
searchPlayersDone ==
    /\ BrowserMounted
    /\ teamNet.search
    /\ teamDetailPage' = [teamDetailPage EXCEPT
                             !.players = SrvSearchPlayers \ teamDetailPage.currentPlayers,
                             !.browserLoading = FALSE]
    /\ teamNet' = [teamNet EXCEPT !.search = FALSE]
    /\ UNCHANGED <<fantasyTeam, notTeamVars>>

\* searchPlayers: catch and finally.
searchPlayersFailed ==
    /\ BrowserMounted
    /\ teamNet.search
    /\ teamDetailPage' = [teamDetailPage EXCEPT !.browserError = "Failed to load players",
                                                !.browserLoading = FALSE]
    /\ teamNet' = [teamNet EXCEPT !.search = FALSE]
    /\ UNCHANGED <<fantasyTeam, notTeamVars>>

\* onClose.
closePlayerBrowser ==
    /\ BrowserMounted
    /\ teamDetailPage' = BrowserGone(teamDetailPage)
    /\ teamNet' = [teamNet EXCEPT !.search = FALSE]
    /\ UNCHANGED <<fantasyTeam, notTeamVars>>

\* The list of the browser is rendered and player is in it.
Listed(player) ==
    /\ BrowserMounted
    /\ ~teamDetailPage.browserLoading
    /\ teamDetailPage.browserError = ""
    /\ player \in teamDetailPage.players

\* Mutant: the price is held against the total budget.
TooExpensive_AgainstTotal(player) ==
    Price(player) > teamDetailPage.teamDetail.team.total_budget

\* handleAddPlayer: player.price > remainingBudget
TooExpensive(player) == Price(player) > remainingBudget

\* canAffordPlayer; the Add to Team button is disabled without it.
canAffordPlayer(player) == Price(player) <= remainingBudget

\* handleAddPlayer up to the call.  The action is the handler as its own code
\* guards it; the button that runs it is disabled unless canAffordPlayer.
\* Nothing keeps a second call from going out while one is in flight.
handleAddPlayer(player) ==
    /\ Listed(player)
    /\ IF TooExpensive(player)
       THEN /\ teamDetailPage' = [teamDetailPage EXCEPT !.alert = InsufficientAlert]
            /\ UNCHANGED teamNet
       ELSE /\ \E i \in AddSlots :
                 /\ teamNet.adds[i] = NoAdd
                 /\ \A j \in AddSlots : teamNet.adds[j] = NoAdd => i <= j
                 /\ teamNet' = [teamNet EXCEPT !.adds[i] =
                       [NoAdd EXCEPT !.stage = "req", !.player_id = player]]
            /\ UNCHANGED teamDetailPage
    /\ UNCHANGED <<fantasyTeam, notTeamVars>>

\* The server adds the player or refuses.
ServeAddPlayer(i) ==
    LET res == SrvAddPlayer(teamNet.adds[i].player_id) IN
    /\ teamNet.adds[i].stage = "req"
    /\ fantasyTeam' = res.team
    /\ teamNet' = [teamNet EXCEPT !.adds[i].stage = "resp", !.adds[i].ok = res.ok,
                                  !.adds[i].err = res.err]
    /\ UNCHANGED <<teamDetailPage, notTeamVars>>

\* The call does not reach the server.
AddPlayerNetworkError(i) ==
    /\ teamNet.adds[i].stage = "req"
    /\ teamNet' = [teamNet EXCEPT !.adds[i].stage = "resp", !.adds[i].ok = FALSE,
                                  !.adds[i].err = "Network Error"]
    /\ UNCHANGED <<fantasyTeam, teamDetailPage, notTeamVars>>

\* handleAddPlayer after the await: onPlayerAdded() is handlePlayerAdded, which
\* closes the browser and runs loadTeamDetail; a refusal is alerted.
addPlayerDone(i) ==
    /\ teamNet.adds[i].stage = "resp"
    /\ IF teamNet.adds[i].ok
       THEN /\ teamDetailPage' = [BrowserGone(teamDetailPage) EXCEPT !.loading = TRUE]
            /\ teamNet' = [teamNet EXCEPT !.adds[i] = NoAdd, !.search = FALSE,
                                          !.loads = @ + 1]
       ELSE /\ teamDetailPage' = [teamDetailPage EXCEPT
                                     !.alert = AddFailedAlert \o teamNet.adds[i].err]
            /\ teamNet' = [teamNet EXCEPT !.adds[i] = NoAdd]
    /\ UNCHANGED <<fantasyTeam, notTeamVars>>

(***************************************************************************)
(* Server: the matchday scorer                                             *)
(***************************************************************************)
\* The statistics of a player in a matchday before the feed records them.
NoStats == [recorded |-> FALSE, minutes |-> 0, scored |-> FALSE, participation |-> 0]

ScorerNotRun == matchdayStats = NoStats

(***************************************************************************)
(* Server: the leagues                                                     *)
(***************************************************************************)
LeagueIds == 1 .. NumLeagues

\* A league, as PublicLeague and League of leagueService.ts show it.  A name
\* is a sequence of characters.
SrvLeague(name, participants, max_participants) ==
    [name |-> name, participants |-> participants,
     max_participants |-> max_participants]

\* GET /leagues/public
SrvPublicLeagues == leagues

SrvLeagueFail(detail) == [ok |-> FALSE, detail |-> detail, leagues |-> leagues]

\* POST /leagues/{id}/join: participant count <= max_participants.
SrvJoinLeague(id) ==
    IF leagues[id].participants >= leagues[id].max_participants
    THEN SrvLeagueFail("League is full")
    ELSE [ok |-> TRUE, detail |-> "",
          leagues |-> [leagues EXCEPT ![id].participants = @ + 1]]

\* Another user joins the league; the leagues of the model grow to
\* MaxLeagueSize participants at most.
OtherUserJoins(id) ==
    /\ leagues[id].participants < leagues[id].max_participants
    /\ leagues[id].participants < MaxLeagueSize
    /\ leagues' = [leagues EXCEPT ![id].participants = @ + 1]
    /\ UNCHANGED <<joinLeagueModal, myFantasyLeagues, updateLeagueModal, leagueNet,
                   notLeagueVars>>

(***************************************************************************)
(* Client: leagueService.ts                                                *)
(***************************************************************************)
\* A call of leagueService with its answer: detail is response.data.detail.
NoLeagueCall ==
    [stage |-> "none", league_id |-> 0, data |-> <<>>, ok |-> FALSE,
     reply |-> "none", detail |-> ""]

\* The error a call was answered with, as axios throws it: response is the
\* HTTP response if there was one, and its detail the server's reason.
AxiosError(call) ==
    IF call.reply = "http"
    THEN [message |-> "Request failed with status code 400",
          response |-> [present |-> TRUE, detail |-> call.detail]]
    ELSE [message |-> "Network Error",
          response |-> [present |-> FALSE, detail |-> ""]]

\* resolveApiErrorMessage of api.ts: the detail of the response, else the
\* message of the error.
resolveApiErrorMessage(err, fallback) ==
    IF err.response.present /\ err.response.detail # "" THEN err.response.detail
    ELSE IF err.message # "" THEN err.message
    ELSE fallback

\* throwApiError: throw new Error(message)
throwApiError(err, fallback) ==
    [message |-> resolveApiErrorMessage(err, fallback),
     response |-> [present |-> FALSE, detail |-> ""]]

\* The sources hold two leagueService modules: leagueService.ts, whose catch
\* throws new Error(fallback), and one whose catch is throwApiError.
ServiceBuilds == {"leagueService.ts", "throwApiError"}

ServiceError(build, call, fallback) ==
    IF build = "throwApiError"
    THEN throwApiError(AxiosError(call), fallback)
    ELSE [message |-> fallback, response |-> [present |-> FALSE, detail |-> ""]]

\* joinLeagueById, catch
joinLeagueByIdError(build, call) == ServiceError(build, call, "Failed to join league")

\* updateLeague, catch
updateLeagueError(build, call) == ServiceError(build, call, "Failed to update league")

\* err.response?.data?.detail || fallback
DetailOr(err, fallback) ==
    IF err.response.present /\ err.response.detail # ""
    THEN err.response.detail
    ELSE fallback

\* The calls of the league components in flight.
LeagueNetIdle ==
    [modalLoads |-> 0, pageLoads |-> 0, modalJoin |-> NoLeagueCall,
     pageJoin |-> NoLeagueCall, update |-> NoLeagueCall,
     delete |-> NoLeagueCall]

\* No public league: [] of the components.
NoLeagues == <<>>

(***************************************************************************)
(* Client: JoinLeagueModal.tsx, Browse tab                                 *)
(***************************************************************************)
JoinModalClosed ==
    [isOpen |-> FALSE, activeTab |-> "code", publicLeagues |-> NoLeagues,
     isLoading |-> FALSE, isJoining |-> FALSE, error |-> "",
     successMessage |-> "", timer |-> FALSE]

JoinFormClosed ==
    [showJoinForm |-> FALSE, joinTab |-> "code", publicLeagues |-> NoLeagues,
     alert |-> "", navigated |-> 0]

UpdateModalClosed ==
    [isOpen |-> FALSE, league |-> SrvLeague(<<>>, 0, 0), league_id |-> 0,
     formData |-> [name |-> <<>>, max_participants |-> 0],
     isSubmitting |-> FALSE, isDeleting |-> FALSE, error |-> ""]

(***************************************************************************)
(* Client: AuthContext.tsx and the forms of components/auth                *)
(***************************************************************************)
NumUsers == 2

Users == 1 .. NumUsers

\* user === null
NoUser == 0

\* The calls of authAPI.
AuthCalls == {"getCurrentUser", "login", "register", "logout"}

\* No call of this kind in flight.  arg is what the call sends, user and
\* detail are what the answer carries.
NoAuthCall == [stage |-> "none", arg |-> NoUser, password |-> FALSE,
               ok |-> FALSE, user |-> NoUser, detail |-> ""]

AuthNetIdle == [call \in AuthCalls |-> NoAuthCall]

\* useState defaults of LoginForm and of RegisterForm.
FormIdle == [isLoading |-> FALSE, error |-> ""]

\* The session of a logged-in user, no call in flight.
AuthNotMounted ==
    /\ users = {1}
    /\ session = 1
    /\ authProvider = [user |-> 1, loading |-> FALSE]
    /\ location = "/dashboard"
    /\ loginForm = FormIdle
    /\ registerForm = FormIdle
    /\ authNet = AuthNetIdle

(***************************************************************************)
(* Client: the search of PlayerBrowser                                     *)
(***************************************************************************)
MaxSearches == 3

SearchSlots == 1 .. MaxSearches

\* No call in this slot.  The filters are what the call sends, players what
\* the answer carries.
NoSearch == [stage |-> "none", q |-> <<>>, team |-> "", position |-> "",
             ok |-> FALSE, players |-> {}]

SearchNetIdle == [s \in SearchSlots |-> NoSearch]

BrowserNotMounted ==
    /\ playerBrowser = [players |-> {}, loading |-> FALSE, error |-> "",
                        searchQuery |-> <<>>, selectedTeam |-> "",
                        selectedPosition |-> ""]
    /\ searchNet = SearchNetIdle

(***************************************************************************)
(* Client: FantasyTeamsList                                                *)
(***************************************************************************)
NumFantasyTeams == 2

FantasyTeamIds == 1 .. NumFantasyTeams

MaxTeamCalls == 2

TeamCallSlots == 1 .. MaxTeamCalls

\* The calls the page sends in one run.
MaxTeamRequests == 2

\* activeDropdown === null, editingTeam === null
NoFantasyTeam == 0

\* No call in this slot.  teams is the list the handler closed over when it
\* was called.
NoTeamCall == [kind |-> "none", stage |-> "", id |-> NoFantasyTeam, name |-> <<>>,
               teams |-> {}, ok |-> FALSE, detail |-> ""]

TeamsNetIdle ==
    [load |-> "none", sent |-> 0, calls |-> [s \in TeamCallSlots |-> NoTeamCall]]

TeamsListUnmounted ==
    [teams |-> {}, loading |-> FALSE, error |-> "", activeDropdown |-> NoFantasyTeam,
     editingTeam |-> NoFantasyTeam, newTeamName |-> <<>>, alert |-> ""]

NoTeamsLog == [deleted |-> {}, renamed |-> {}]

TeamsListNotMounted ==
    /\ fantasyTeams = {[id |-> id, name |-> <<"T">>] : id \in FantasyTeamIds}
    /\ fantasyTeamsList = TeamsListUnmounted
    /\ teamsNet = TeamsNetIdle
    /\ teamsLog = NoTeamsLog

(***************************************************************************)
(* Client: LeagueManager                                                   *)
(***************************************************************************)
\* No call of this kind in flight.
NoManagerCall == [stage |-> "none", id |-> 0, ok |-> FALSE, leagues |-> {}]

ManagerNetIdle == [load |-> NoManagerCall, leave |-> NoManagerCall]

ManagerUnmounted == [leagues |-> {}, isLoading |-> FALSE, error |-> "", alert |-> ""]

ManagerNotMounted ==
    /\ userLeagues = LeagueIds
    /\ leagueManager = ManagerUnmounted
    /\ managerNet = ManagerNetIdle

AppNotMounted ==
    /\ AuthNotMounted
    /\ BrowserNotMounted
    /\ TeamsListNotMounted
    /\ ManagerNotMounted

LeagueNotMounted ==
    /\ leagues = [id \in LeagueIds |-> SrvLeague(<<"L">>, 1, 2)]
    /\ joinLeagueModal = JoinModalClosed
    /\ myFantasyLeagues = JoinFormClosed
    /\ updateLeagueModal = UpdateModalClosed
    /\ leagueNet = LeagueNetIdle
    /\ ScorerNotRun
    /\ AppNotMounted

(***************************************************************************)
(* The other users of the league, and time                                 *)
(***************************************************************************)
\* The offers the teams of the league make in this model, by the id the
\* server gives them: team 2 asks Me for player 1, and then either team 3 asks
\* Me for the same player or Me offers that player to team 2.
OfferRequests ==
    << { [team |-> 2, to_team_id |-> Me, player_id |-> 1, offer_type |-> "money",
          money_offered |-> 1, player_offered_id |-> NoPlayer,
          player_out_id |-> NoPlayer] },
       { [team |-> 3, to_team_id |-> Me, player_id |-> 1,
          offer_type |-> "player_exchange",
          money_offered |-> 0, player_offered_id |-> 3, player_out_id |-> NoPlayer],
         [team |-> Me, to_team_id |-> 2, player_id |-> 2,
          offer_type |-> "player_exchange",
          money_offered |-> 0, player_offered_id |-> 1, player_out_id |-> NoPlayer] } >>

OfferIds == DOMAIN OfferRequests

\* No offer is stored under the id yet.
NoOffer ==
    [from |-> 0, to |-> 0, player |-> NoPlayer, offer_type |-> "",
     money_offered |-> 0, player_offered |-> NoPlayer, player_out |-> NoPlayer,
     status |-> "none", expires_at |-> 0]

\* A team of the league creates an offer.
CreateOffer(id, req) ==
    LET res == SrvCreateOffer(req, req.team, id) IN
    /\ offers[id] = NoOffer
    /\ res.ok
    /\ SrvApply(res)
    /\ UNCHANGED <<now, transferOffers, offersNet, offersLog, notOffersVars>>

\* Another team calls accept, reject or cancel on any offer.
OtherOfferRequest(team, kind, o) ==
    LET res == SrvOfferOp(kind, o, team) IN
    /\ team # Me
    /\ offers[o] # NoOffer
    /\ res.state # SrvState
    /\ SrvApply(res)
    /\ UNCHANGED <<now, transferOffers, offersNet, offersLog, notOffersVars>>

Tick ==
    /\ now < MaxTime
    /\ now' = now + 1
    /\ UNCHANGED <<roster, budget, offers, transferOffers, offersNet, offersLog,
                   notOffersVars>>

\* handleCreateOffer up to the call; window.alert is kept as the last message
\* shown.
handleCreateOffer ==
    LET m == userTransferMarket IN
    /\ FormShown
    /\ ~m.submitting
    /\ m.selectedTeam # 0
    /\ IF m.offerType = "money"
          /\ (m.moneyOffer = "" \/ LessOrEqualZero(parseFloat(m.moneyOffer)))
       THEN /\ userTransferMarket' = [m EXCEPT !.alert = MoneyAlert]
            /\ UNCHANGED marketNet
       ELSE IF m.offerType = "money" /\ m.playerOut = NoPlayer
       THEN /\ userTransferMarket' = [m EXCEPT !.alert = PlayerOutAlert]
            /\ UNCHANGED marketNet
       ELSE IF m.offerType = "player_exchange" /\ m.playerExchange = NoPlayer
       THEN /\ userTransferMarket' = [m EXCEPT !.alert = ExchangeAlert]
            /\ UNCHANGED marketNet
       ELSE /\ \E id \in OfferIds : offers[id] = NoOffer
            /\ userTransferMarket' = [m EXCEPT !.submitting = TRUE]
            /\ marketNet' = CreateOfferData
    /\ UNCHANGED <<serverVars, notMarketVars>>

\* The id the server gives the next offer.
SrvNextOfferId ==
    CHOOSE id \in OfferIds :
        /\ offers[id] = NoOffer
        /\ \A other \in OfferIds : offers[other] = NoOffer => id <= other

\* The server validates and stores the offer.  A refusal reaches the client
\* either as a result with success false and an errors list, or as an HTTP
\* error status with a detail.
ServeCreateOffer(reply) ==
    LET res == SrvCreateOffer(marketNet, Me, SrvNextOfferId) IN
    /\ marketNet.kind = "create"
    /\ marketNet.stage = "req"
    /\ SrvApply(res)
    /\ reply = "result" \/ ~res.ok
    /\ marketNet' = [marketNet EXCEPT !.stage = "resp", !.ok = res.ok,
                                      !.reply = reply, !.err = res.err]
    /\ UNCHANGED <<now, userTransferMarket, notMarketVars>>

\* The call does not reach the server.
CreateOfferNetworkError ==
    /\ marketNet.kind = "create"
    /\ marketNet.stage = "req"
    /\ marketNet' = [marketNet EXCEPT !.stage = "resp", !.ok = FALSE,
                                      !.reply = "network", !.err = "Network Error"]
    /\ UNCHANGED <<serverVars, userTransferMarket, notMarketVars>>

\* handleCreateOffer after the await: result.errors.join(', ') of a refusal,
\* err.response?.data?.detail || err.message of an exception.
createOfferDone ==
    /\ marketNet.kind = "create"
    /\ marketNet.stage = "resp"
    /\ userTransferMarket' =
          IF marketNet.ok
          THEN [userTransferMarket EXCEPT
                   !.alert = SentAlert, !.selectedTeam = 0,
                   !.selectedPlayer = NoPlayer, !.moneyOffer = "",
                   !.playerExchange = NoPlayer, !.submitting = FALSE]
          ELSE [userTransferMarket EXCEPT
                   !.alert = FailedAlert \o marketNet.err, !.submitting = FALSE]
    /\ marketNet' = NoOfferCall
    /\ UNCHANGED <<serverVars, notMarketVars>>

\* The team an offer was made to accepts it.
OtherTeamAccepts(o) ==
    /\ offers[o].to # Me
    /\ SrvAccept(o, offers[o].to).ok
    /\ OtherOfferRequest(offers[o].to, "accept", o)

(***************************************************************************)
(* Specification of the offers page                                        *)
(***************************************************************************)
InitServer ==
    /\ roster = [t \in Teams |-> {t}]
    /\ budget = [t \in Teams |-> 1]
    /\ offers = [id \in OfferIds |-> NoOffer]
    /\ now = 0

OffersNotMounted ==
    /\ transferOffers = [receivedOffers |-> {}, sentOffers |-> {}, loading |-> FALSE,
                         activeTab |-> "received"]
    /\ offersNet = [s \in Slots |-> NoMsg]
    /\ offersLog = {}

\* The component as mounted: useState defaults, and the effect's loadOffers().
InitOffers ==
    /\ InitServer
    /\ LeagueNotMounted
    /\ transferOffers = [receivedOffers |-> {}, sentOffers |-> {}, loading |-> TRUE,
                         activeTab |-> "received"]
    /\ offersNet = [s \in Slots |-> IF s = 1 THEN LoadRequest ELSE NoMsg]
    /\ offersLog = {}
    /\ FreeAgentNotMounted
    /\ MarketNotMounted
    /\ TeamPageNotMounted

NextOffers ==
    \/ \E id \in OfferIds : handleAccept(id)
    \/ \E id \in OfferIds : handleReject(id)
    \/ \E id \in OfferIds : handleCancel(id)
    \/ \E s \in Slots : OfferRequestDone(s)
    \/ \E s \in Slots : loadOffersDone(s)
    \/ \E tab \in {"received", "sent"} : setActiveTab(tab)
    \/ \E s \in Slots : loadOffersFailed(s)
    \/ \E s \in Slots : ServeOfferRequest(s)
    \/ \E s \in Slots : OffersNetworkError(s)
    \/ \E id \in OfferIds : \E req \in OfferRequests[id] : CreateOffer(id, req)
    \/ \E team \in Teams, kind \in {"accept", "reject", "cancel"}, o \in OfferIds :
          OtherOfferRequest(team, kind, o)
    \/ Tick

SpecOffers == InitOffers /\ [][NextOffers]_vars

(***************************************************************************)
(* Specification of the free-agent market                                  *)
(***************************************************************************)
\* The league when the page is opened: the team has 10 or 11 players and the
\* remaining players are free agents.
InitFreeAgent ==
    /\ \E k \in {DropRequiredFrom - 1, DropRequiredFrom} :
          roster = [t \in Teams |-> IF t = Me THEN 1 .. k ELSE {}]
    /\ budget = [t \in Teams |-> 2]
    /\ offers = [id \in OfferIds |-> NoOffer]
    /\ now = 0
    /\ LeagueNotMounted
    /\ OffersNotMounted
    /\ MarketNotMounted
    /\ TeamPageNotMounted
    /\ freeAgentTransfer =
          [availablePlayers |-> {}, myPlayers |-> {}, loading |-> TRUE,
           error |-> "", success |-> "", selectedPlayerIn |-> NoPlayer,
           selectedPlayerOut |-> NoPlayer, showDialog |-> FALSE]
    /\ faNet = MyTeamRequest
    /\ faLog = [sent |-> NoRequest, failed |-> NoRequest, transfers |-> 0]

NextFreeAgent ==
    \/ myTeamLoaded
    \/ myTeamWithoutPlayers
    \/ myTeamFailed
    \/ availablePlayersLoaded
    \/ availablePlayersFailed
    \/ \E player \in Players : handleTransferClick(player)
    \/ \E player \in Players : setSelectedPlayerOut(player)
    \/ closeDialog
    \/ handleExecuteTransfer
    \/ \E reply \in {"result", "http"} : ServeTransfer(reply)
    \/ TransferNetworkError
    \/ transferDone

SpecFreeAgent == InitFreeAgent /\ [][NextFreeAgent]_vars


(***************************************************************************)
(* Specification of the user transfer market                               *)
(***************************************************************************)
\* The component as mounted: useState defaults, and the effect's loadTeams().
InitMarket ==
    /\ InitServer
    /\ LeagueNotMounted
    /\ OffersNotMounted
    /\ FreeAgentNotMounted
    /\ TeamPageNotMounted
    /\ userTransferMarket = [MarketUnmounted EXCEPT !.loading = TRUE]
    /\ marketNet = TeamsRequest

NextMarket ==
    \/ loadTeamsDone
    \/ loadTeamsFailed
    \/ \E team \in Teams : setSelectedTeam(team)
    \/ \E player \in Players : setSelectedPlayer(player)
    \/ \E type \in {"money", "player_exchange"} : setOfferType(type)
    \/ \E text \in MoneyInputs : setMoneyOffer(text)
    \/ \E player \in Players : setPlayerOut(player)
    \/ \E player \in Players : setPlayerExchange(player)
    \/ handleCreateOffer
    \/ \E reply \in {"result", "http"} : ServeCreateOffer(reply)
    \/ CreateOfferNetworkError
    \/ createOfferDone
    \/ \E o \in OfferIds : OtherTeamAccepts(o)

SpecMarket == InitMarket /\ [][NextMarket]_vars

(***************************************************************************)
(* Specification of the team page                                          *)
(***************************************************************************)
\* The page as mounted on a new team: useState defaults, and the effect's
\* loadTeamDetail().
InitTeam ==
    /\ InitServer
    /\ LeagueNotMounted
    /\ OffersNotMounted
    /\ FreeAgentNotMounted
    /\ MarketNotMounted
    /\ fantasyTeam = SrvTeam(TotalBudget, {})
    /\ teamDetailPage = [TeamPageUnmounted EXCEPT !.loading = TRUE]
    /\ teamNet = [TeamNetIdle EXCEPT !.loads = 1]

NextTeam ==
    \/ loadTeamDetailDone
    \/ loadTeamDetailFailed
    \/ openPlayerBrowser
    \/ searchPlayersDone
    \/ searchPlayersFailed
    \/ closePlayerBrowser
    \/ \E player \in Players : handleAddPlayer(player)
    \/ \E i \in AddSlots : ServeAddPlayer(i)
    \/ \E i \in AddSlots : AddPlayerNetworkError(i)
    \/ \E i \in AddSlots : addPlayerDone(i)

SpecTeam == InitTeam /\ [][NextTeam]_vars

(***************************************************************************)
(* Properties of the offers page                                           *)
(***************************************************************************)
\* The call in slot s, of the given kind, is answered by the server in this step.
Answered(s, kind) ==
    /\ offersNet[s].kind = kind
    /\ offersNet[s].stage = "req"
    /\ offersNet'[s].stage = "resp"
    /\ offersNet'[s].err # "Network Error"

Created(o) == offers[o].status # "none"

PastExpiry(o) == Created(o) /\ now >= offers[o].expires_at

ListOf(type) ==
    IF type = "received" THEN transferOffers.receivedOffers
                         ELSE transferOffers.sentOffers

ListTypes == {"received", "sent"}

\* The players an offer references.
Referenced(o) ==
    {offers[o].player, offers[o].player_offered, offers[o].player_out} \ {NoPlayer}

\* C1 (view): an offer flagged is_expired whose status is still pending has
\* no Accept, Reject or Cancel button in either list.
C1_View ==
    \A type \in ListTypes : \A v \in ListOf(type) :
        (v.is_expired /\ v.status = "pending") =>
            ~ShowAcceptReject(v, type) /\ ~ShowCancel(v, type)

\* Offer o is invalidated in this step by the acceptance of another offer.
InvalidatedNow(o) ==
    /\ offers'[o].status = "rejected"
    /\ \E o1 \in OfferIds \ {o} :
          offers[o1].status = "pending" /\ offers'[o1].status = "accepted"

\* C1 (server): no step carries out an accept, a reject or a cancel on a
\* pending offer past its expiry (it stays pending or becomes expired, unless
\* the acceptance of a competing offer invalidates it), and an accept asked
\* for it is answered with ExpiredOfferError.
C1_Step ==
    /\ \A o \in OfferIds :
          (PastExpiry(o) /\ offers[o].status = "pending") =>
              (offers'[o].status \in {"pending", "expired"} \/ InvalidatedNow(o))
    /\ \A s \in Slots :
          (/\ Answered(s, "accept")
           /\ PastExpiry(offersNet[s].offer)
           /\ offers[offersNet[s].offer].status = "pending") =>
              (~offersNet'[s].ok /\ offersNet'[s].err = "ExpiredOfferError")

\* C1: a pending offer past its expiry is treated as expired for accept,
\* reject and cancel, by the server and by the offers view.
C1_ExpiredOfferIsDead == [][C1_Step]_vars /\ []C1_View

\* C1 witness: an accept was answered with ExpiredOfferError while the view
\* shows an offer flagged expired with status pending.
C1_Witness ==
    /\ \E s \in Slots :
          /\ offersNet[s].kind = "accept"
          /\ offersNet[s].stage = "resp"
          /\ offersNet[s].err = "ExpiredOfferError"
    /\ \E v \in DisplayedOffers : v.is_expired /\ v.status = "pending"

\* C2 (state): two offers that reference a common player are never both
\* accepted, and no player is in two rosters.
C2_NoDoubleAllocation ==
    /\ \A o1, o2 \in OfferIds :
          (o1 # o2 /\ Referenced(o1) \cap Referenced(o2) # {}) =>
              ~(offers[o1].status = "accepted" /\ offers[o2].status = "accepted")
    /\ \A t1, t2 \in Teams : t1 # t2 => roster[t1] \cap roster[t2] = {}

\* C2 (step): the step that accepts an offer invalidates every other pending
\* offer that references a player it transfers, and an accept asked for an
\* offer that lost to an accepted one is answered with StaleOfferError.
C2_Step ==
    /\ \A o1, o2 \in OfferIds :
          (/\ o1 # o2
           /\ offers[o1].status = "pending" /\ offers'[o1].status = "accepted"
           /\ offers[o2].status = "pending"
           /\ Referenced(o2) \cap {offers[o1].player, offers[o1].player_offered} # {}) =>
              offers'[o2].status \in {"rejected", "cancelled"}
    /\ \A s \in Slots : \A o1 \in OfferIds :
          (/\ Answered(s, "accept")
           /\ o1 # offersNet[s].offer
           /\ offers[o1].status = "accepted"
           /\ Referenced(o1) \cap Referenced(offersNet[s].offer) # {}) =>
              (/\ ~offersNet'[s].ok
               /\ offersNet'[s].err = "StaleOfferError"
               /\ roster' = roster /\ budget' = budget /\ offers' = offers)

\* C2: of two pending offers that reference player X the first acceptance
\* wins, the second offer is invalidated and a later accept of it fails with
\* StaleOfferError, so that X is never allocated by both.
C2_FirstAcceptanceWins == [][C2_Step]_vars /\ []C2_NoDoubleAllocation

\* C2 witness: one offer is accepted and the accept of the other offer, which
\* references the same player, was answered with StaleOfferError.
C2_Witness ==
    \E s \in Slots : \E o1 \in OfferIds :
        /\ offersNet[s].kind = "accept"
        /\ offersNet[s].stage = "resp"
        /\ offersNet[s].err = "StaleOfferError"
        /\ o1 # offersNet[s].offer
        /\ offers[o1].status = "accepted"
        /\ Referenced(o1) \cap Referenced(offersNet[s].offer) # {}

\* C3 (view): an offer whose status is not pending has no Accept, Reject or
\* Cancel button, and no accept, reject or cancel is started from the view on
\* an offer it shows with another status than pending.
C3_View ==
    \A type \in ListTypes : \A v \in ListOf(type) :
        v.status # "pending" => ~ShowAcceptReject(v, type) /\ ~ShowCancel(v, type)

\* C3 (step): a terminal status does not change.
C3_Step ==
    \A o \in OfferIds :
        offers[o].status \in Terminal => offers'[o].status = offers[o].status

\* C3: once accepted, rejected, cancelled or expired, an offer's status never
\* changes, and the view offers no operation on such an offer.
C3_TerminalIsFinal == [][C3_Step]_vars /\ []C3_View

\* C3 witness: the view shows an offer in a terminal status, and an operation
\* asked for an offer that had reached a terminal status was refused.
C3_Witness ==
    /\ \E v \in DisplayedOffers : v.status \in Terminal
    /\ \E s \in Slots :
          /\ offersNet[s].stage = "resp"
          /\ offersNet[s].err = "StaleOfferError"
          /\ offers[offersNet[s].offer].status \in Terminal

\* C4: an accept that the server answers when the offer's expires_at has
\* passed does not take effect, whatever the list the client had loaded said.
C4_Step ==
    \A s \in Slots :
        (Answered(s, "accept") /\ PastExpiry(offersNet[s].offer)) =>
            (/\ ~offersNet'[s].ok
             /\ offers[offersNet[s].offer].status # "accepted" =>
                    offers'[offersNet[s].offer].status # "accepted"
             /\ roster' = roster
             /\ budget' = budget)

C4_ExpiryAtAcceptTime == [][C4_Step]_vars

\* C4 witness: the loaded list shows the offer pending and not expired, and
\* the accept sent from it was answered with ExpiredOfferError.
C4_Witness ==
    \E s \in Slots : \E v \in transferOffers.receivedOffers :
        /\ offersNet[s].kind = "accept"
        /\ offersNet[s].stage = "resp"
        /\ offersNet[s].err = "ExpiredOfferError"
        /\ v.id = offersNet[s].offer
        /\ v.status = "pending"
        /\ ~v.is_expired

\* C5: Accept and Reject are shown only for pending, unexpired offers of the
\* received list, which the current team received; Cancel only for pending,
\* unexpired offers of the sent list, which the current team sent; the calls
\* in flight are of that kind, and the server lets only the recipient accept
\* or reject and only the sender cancel.
C5_OnlyRecipientOnlySender ==
    /\ \A id \in OfferIds :
          AcceptShown(id) =>
              /\ \E v \in transferOffers.receivedOffers :
                    v.id = id /\ v.status = "pending" /\ ~v.is_expired
              /\ offers[id].to = Me
    /\ \A id \in OfferIds :
          CancelShown(id) =>
              /\ \E v \in transferOffers.sentOffers :
                    v.id = id /\ v.status = "pending" /\ ~v.is_expired
              /\ offers[id].from = Me
    /\ \A s \in Slots :
          /\ offersNet[s].kind \in {"accept", "reject"} =>
                offers[offersNet[s].offer].to = Me
          /\ offersNet[s].kind = "cancel" => offers[offersNet[s].offer].from = Me
    /\ \A o \in OfferIds : \A t \in Teams :
          Created(o) =>
              /\ SrvAccept(o, t).ok => t = offers[o].to
              /\ SrvReject(o, t).ok => t = offers[o].to
              /\ SrvCancel(o, t).ok => t = offers[o].from

\* C5 witness: a cancel sent from the sent list was carried out, while an
\* offer the current team received is shown with its Accept and Reject buttons.
C5_Witness ==
    /\ \E o \in OfferIds : offers[o].from = Me /\ offers[o].status = "cancelled"
    /\ \E o \in OfferIds : offers[o].to = Me /\ AcceptShown(o)

(***************************************************************************)
(* Properties of the free-agent market                                     *)
(***************************************************************************)
\* A transfer request is put on the wire in this step.
TransferSent == faNet.kind # "transfer" /\ faNet'.kind = "transfer"

\* The server answers the transfer request in this step.
TransferAnswered ==
    /\ faNet.kind = "transfer"
    /\ faNet.stage = "req"
    /\ faNet'.stage = "resp"
    /\ faNet'.reply # "network"

C6_Step ==
    /\ TransferSent =>
          ~ /\ Cardinality(freeAgentTransfer.myPlayers) >= 11
            /\ faNet'.player_out_id = NoPlayer
    /\ /\ freeAgentTransfer.showDialog
       /\ Cardinality(freeAgentTransfer.myPlayers) >= 11
       /\ freeAgentTransfer.selectedPlayerOut = NoPlayer
       /\ freeAgentTransfer'.error # freeAgentTransfer.error
       => /\ freeAgentTransfer'.error = MustDropMessage
          /\ faNet' = faNet

\* C6: once the page counts 11 or more players in the team, handleExecuteTransfer
\* with no player to drop selected sends no transfer request and reports the
\* "must select a player to drop" error (which is never on display while a call
\* is in flight); below 11 players a transfer goes out without player_out_id.
C6_DropRequiredAtEleven ==
    /\ [][C6_Step]_vars
    /\ [](freeAgentTransfer.error = MustDropMessage => faNet = NoCall)

\* A transfer went out without a player to drop from a squad of fewer than 11,
\* and now the handler has refused one for a squad of 11.
C6_Witness ==
    /\ freeAgentTransfer.error = MustDropMessage
    /\ Cardinality(freeAgentTransfer.myPlayers) >= 11
    /\ freeAgentTransfer.selectedPlayerOut = NoPlayer
    /\ faNet = NoCall
    /\ faLog.sent.player_in_id # NoPlayer
    /\ faLog.sent.player_out_id = NoPlayer
    /\ faLog.sent.squadSize < 11

\* The request on the wire is valid but for its cost.
ValidButForCost ==
    /\ \A t \in Teams : faNet.player_in_id \notin roster[t]
    /\ faNet.player_out_id # NoPlayer => faNet.player_out_id \in roster[Me]
    /\ Cardinality(roster[Me]) >= SrvSquadFull => faNet.player_out_id # NoPlayer

CostOnTheWire ==
    Price(faNet.player_in_id)
        - (IF faNet.player_out_id = NoPlayer THEN 0 ELSE Price(faNet.player_out_id))

RefusedForBudget ==
    /\ ~faNet'.ok
    /\ faNet'.err = "InsufficientBudgetError"
    /\ roster' = roster
    /\ budget' = budget

C7_Step ==
    /\ TransferAnswered /\ ValidButForCost /\ CostOnTheWire > budget[Me]
          => RefusedForBudget
    /\ /\ TransferAnswered
       /\ faLog.failed.err = "InsufficientBudgetError"
       /\ faLog.failed.player_in_id = faNet.player_in_id
       /\ faLog.failed.player_out_id = faNet.player_out_id
       => RefusedForBudget
    /\ faNet.stage = "resp" /\ ~faNet.ok /\ faNet' = NoCall
          => /\ freeAgentTransfer'.error # ""
             /\ freeAgentTransfer'.selectedPlayerIn = freeAgentTransfer.selectedPlayerIn
             /\ freeAgentTransfer'.selectedPlayerOut = freeAgentTransfer.selectedPlayerOut

\* C7: a free-agent purchase whose net cost exceeds the remaining budget is
\* refused with InsufficientBudgetError and leaves roster and budget as they
\* were; the page keeps the selection and the same request sent again is
\* refused the same way.
C7_OverBudgetIsRefused == [][C7_Step]_vars

\* The same over-budget request was refused before and is refused again.
C7_Witness ==
    /\ faNet.kind = "transfer"
    /\ faNet.stage = "resp"
    /\ faNet.err = "InsufficientBudgetError"
    /\ faLog.failed.err = "InsufficientBudgetError"
    /\ faLog.failed.player_in_id = faNet.player_in_id
    /\ faLog.failed.player_out_id = faNet.player_out_id

(***************************************************************************)
(* Properties of the user transfer market                                  *)
(***************************************************************************)
\* C8: a money offer is created only with money_offered > 0, and a player to
\* drop is demanded only when the sender's squad is full, so that a money offer
\* from a squad that is not full goes out without one.
C8_DropOnlyWhenSquadFull ==
    /\ marketNet.kind = "create" /\ marketNet.offer_type = "money"
          => marketNet.money_offered > 0
    /\ userTransferMarket.alert = PlayerOutAlert
          => Cardinality(userTransferMarket.myPlayers) >= SrvSquadFull

\* An offer request is put on the wire in this step.
OfferSent == marketNet.kind # "create" /\ marketNet'.kind = "create"

\* The server stores a new offer under id o in this step.
OfferStored(o) == offers[o] = NoOffer /\ offers'[o] # NoOffer

C9_Step ==
    /\ OfferSent /\ marketNet'.offer_type = "player_exchange"
          => /\ marketNet'.fields =
                   {"to_team_id", "player_id", "offer_type", "player_offered_id"}
             /\ marketNet'.player_offered_id \in userTransferMarket.myPlayers
    /\ OfferSent /\ marketNet'.offer_type = "money"
          => "player_offered_id" \notin marketNet'.fields
    /\ \A o \in OfferIds :
          OfferStored(o) /\ offers'[o].offer_type = "player_exchange"
             => offers'[o].player_offered \in roster[offers'[o].from]

\* C9: a player_exchange offer is created only with a player_offered_id of the
\* sender's own roster; the exchange request carries neither money_offered nor
\* player_out_id, and a money request carries no player_offered_id.
C9_ExchangeOffersOwnPlayer == [][C9_Step]_vars

\* An exchange of the user's was accepted, and the next exchange request, made
\* from the list loaded before, is refused: the player offered has left.
C9_Witness ==
    /\ marketNet.kind = "create"
    /\ marketNet.stage = "resp"
    /\ marketNet.offer_type = "player_exchange"
    /\ ~marketNet.ok
    /\ marketNet.player_offered_id \in userTransferMarket.myPlayers
    /\ marketNet.player_offered_id \notin roster[Me]
    /\ marketNet.player_id \in roster[marketNet.to_team_id]
    /\ \E o \in OfferIds : offers[o].from = Me /\ offers[o].status = "accepted"

(***************************************************************************)
(* Properties of the team page                                             *)
(***************************************************************************)
\* An add request is put on the wire in this step.
AddSent(i) == teamNet.adds[i].stage = "none" /\ teamNet'.adds[i].stage = "req"

C10_Step ==
    \A i \in AddSlots :
        AddSent(i) =>
            Price(teamNet'.adds[i].player_id)
                <= teamDetailPage.teamDetail.team.total_budget
                      - SumPrices(teamDetailPage.teamDetail.players)

C10_Spent == SumPrices(fantasyTeam.players) <= fantasyTeam.total_budget

\* C10: the prices of a team's players never add up to more than its
\* total_budget, and handleAddPlayer sends the add request only when the
\* player's price is at most remainingBudget, the total_budget less the prices
\* of the players the page shows.
C10_BudgetNeverExceeded == [][C10_Step]_vars /\ []C10_Spent

\* A request that passed the page's check is refused by the server, the team
\* having spent part of its budget since the page was loaded.
C10_Witness ==
    \E i \in AddSlots :
        /\ teamNet.adds[i].stage = "resp"
        /\ teamNet.adds[i].err = "InsufficientBudgetError"
        /\ fantasyTeam.players # {}
        /\ SumPrices(fantasyTeam.players) <= fantasyTeam.total_budget

(***************************************************************************)
(* Specification of the team page on a squad one short of the limit        *)
(***************************************************************************)
\* The players of a team that is one short of the squad limit; none of them
\* is among the players the search lists.
HeldPlayers == {NumPlayers + k : k \in 1 .. (SquadMax - 1)}

\* The page as mounted on that team, which has TotalBudget left to spend.
InitSquad ==
    /\ InitServer
    /\ LeagueNotMounted
    /\ OffersNotMounted
    /\ FreeAgentNotMounted
    /\ MarketNotMounted
    /\ fantasyTeam = SrvTeam(SumPrices(HeldPlayers) + TotalBudget, HeldPlayers)
    /\ teamDetailPage = [TeamPageUnmounted EXCEPT !.loading = TRUE]
    /\ teamNet = [TeamNetIdle EXCEPT !.loads = 1]

SpecSquad == InitSquad /\ [][NextTeam]_vars

\* The server answers the add request of slot i in this step.
AddAnswered(i) == teamNet.adds[i].stage = "req" /\ teamNet'.adds[i].stage = "resp"

C11_Step ==
    Cardinality(fantasyTeam.players) >= 15
        => fantasyTeam'.players \subseteq fantasyTeam.players

\* C11: a fantasy team's squad never exceeds 15 players, and no add-player
\* operation grows a roster that already has 15 players.
C11_SquadAtMostFifteen ==
    /\ [][C11_Step]_vars
    /\ [](Cardinality(fantasyTeam.players) <= 15)

\* The squad is at 15 and an add the team could pay for, sent by the page
\* while the squad was at 14, came back refused.
C11_Witness ==
    \E i \in AddSlots :
        /\ Cardinality(fantasyTeam.players) = 15
        /\ teamNet.adds[i].stage = "resp"
        /\ ~teamNet.adds[i].ok
        /\ teamNet.adds[i].err = "ValidationError"
        /\ teamNet.adds[i].player_id \notin fantasyTeam.players
        /\ SumPrices(fantasyTeam.players) + Price(teamNet.adds[i].player_id)
              <= fantasyTeam.total_budget

(***************************************************************************)
(* Client: the captain and vice-captain buttons of TeamDetailPage.tsx      *)
(***************************************************************************)
\* The Captain button of a player card: {!player.is_captain && ...}
ShowCaptain(player) == player \notin teamDetailPage.teamDetail.captains

\* The Vice button: {!player.is_vice_captain && !player.is_captain && ...}
ShowVice(player) ==
    /\ player \notin teamDetailPage.teamDetail.vice_captains
    /\ player \notin teamDetailPage.teamDetail.captains

\* handleSetCaptain up to the call; the cards lie under the browser while it
\* is open.  Nothing keeps a second call from going out while one is in flight;
\* the loads and calls in flight are capped by MaxCaptainCalls.
handleSetCaptain(player, isVice) ==
    /\ PageShown
    /\ ~teamDetailPage.showPlayerBrowser
    /\ player \in teamDetailPage.teamDetail.players
    /\ IF isVice THEN ShowVice(player) ELSE ShowCaptain(player)
    /\ teamNet.loads < MaxCaptainCalls
    /\ \E i \in CaptainSlots :
          /\ teamNet.captain[i] = NoCaptainCall
          /\ \A j \in CaptainSlots : teamNet.captain[j] = NoCaptainCall => i <= j
          /\ teamNet' = [teamNet EXCEPT !.captain[i] =
                [NoCaptainCall EXCEPT !.stage = "req", !.player_id = player,
                                      !.is_vice = isVice]]
    /\ UNCHANGED <<fantasyTeam, teamDetailPage, notTeamVars>>

\* The server sets the role.
ServeSetCaptain(i) ==
    LET call == teamNet.captain[i]
        res == SrvSetCaptain(call.player_id, call.is_vice) IN
    /\ call.stage = "req"
    /\ fantasyTeam' = res.team
    /\ teamNet' = [teamNet EXCEPT !.captain[i].stage = "resp",
                                  !.captain[i].ok = res.ok,
                                  !.captain[i].err = res.err]
    /\ UNCHANGED <<teamDetailPage, notTeamVars>>

\* The call does not reach the server.
SetCaptainNetworkError(i) ==
    /\ teamNet.captain[i].stage = "req"
    /\ teamNet' = [teamNet EXCEPT !.captain[i].stage = "resp",
                                  !.captain[i].ok = FALSE,
                                  !.captain[i].err = "Network Error"]
    /\ UNCHANGED <<fantasyTeam, teamDetailPage, notTeamVars>>

\* handleSetCaptain after the await: loadTeamDetail(), or the alert.
setCaptainDone(i) ==
    /\ teamNet.captain[i].stage = "resp"
    /\ IF teamNet.captain[i].ok
       THEN /\ teamDetailPage' = [teamDetailPage EXCEPT !.loading = TRUE]
            /\ teamNet' = [teamNet EXCEPT !.captain[i] = NoCaptainCall,
                                          !.loads = @ + 1]
       ELSE /\ teamDetailPage' = [teamDetailPage EXCEPT
                   !.alert = "Failed to set captain: " \o teamNet.captain[i].err]
            /\ teamNet' = [teamNet EXCEPT !.captain[i] = NoCaptainCall]
    /\ UNCHANGED <<fantasyTeam, notTeamVars>>

(***************************************************************************)
(* Specification of the captain buttons                                    *)
(***************************************************************************)
\* The page as mounted on a team of three players without a captain; the
\* browser stays closed.
InitCaptain ==
    /\ InitServer
    /\ LeagueNotMounted
    /\ OffersNotMounted
    /\ FreeAgentNotMounted
    /\ MarketNotMounted
    /\ fantasyTeam = SrvTeam(SumPrices({1, 2, 3}) + TotalBudget, {1, 2, 3})
    /\ teamDetailPage = [TeamPageUnmounted EXCEPT !.loading = TRUE]
    /\ teamNet = [TeamNetIdle EXCEPT !.loads = 1]

NextCaptain ==
    \/ loadTeamDetailDone
    \/ loadTeamDetailFailed
    \/ \E player \in Players, isVice \in BOOLEAN : handleSetCaptain(player, isVice)
    \/ \E i \in CaptainSlots : ServeSetCaptain(i)
    \/ \E i \in CaptainSlots : SetCaptainNetworkError(i)
    \/ \E i \in CaptainSlots : setCaptainDone(i)

SpecCaptain == InitCaptain /\ [][NextCaptain]_vars

\* The roles of a team or of the page's copy of it are well formed.
RolesWellFormed(team) ==
    /\ Cardinality(team.captains) <= 1
    /\ Cardinality(team.vice_captains) <= 1
    /\ team.captains \cap team.vice_captains = {}

\* The server answers the captain call of slot i in this step.
CaptainAnswered(i) ==
    /\ teamNet.captain[i].stage = "req"
    /\ teamNet'.captain[i].stage = "resp"
    /\ teamNet'.captain[i].ok

C12_Step ==
    \A i \in CaptainSlots :
        /\ CaptainAnswered(i)
        /\ ~teamNet.captain[i].is_vice
        /\ teamNet.captain[i].player_id \in fantasyTeam.vice_captains
        => /\ fantasyTeam'.captains = {teamNet.captain[i].player_id}
           /\ teamNet.captain[i].player_id \notin fantasyTeam'.vice_captains

\* C12: a team has at most one captain and at most one vice-captain, and they
\* are different players, on the server and in the page's copy; the captain
\* action applied to the current vice-captain leaves him captain only.
C12_OneCaptainOneVice ==
    /\ [][C12_Step]_vars
    /\ [](RolesWellFormed(fantasyTeam) /\ RolesWellFormed(teamDetailPage.teamDetail))

\* The page still shows a player as vice-captain whom the server, answering
\* the Captain button, has just made captain.
C12_Witness ==
    \E i \in CaptainSlots :
        LET call == teamNet.captain[i] IN
        /\ call.stage = "resp"
        /\ call.ok
        /\ ~call.is_vice
        /\ teamDetailPage.teamDetail.vice_captains = {call.player_id}
        /\ fantasyTeam.captains = {call.player_id}
        /\ fantasyTeam.vice_captains = {}

(***************************************************************************)
(* The formation rule and the position warnings of TeamDetailPage.tsx      *)
(***************************************************************************)
Positions == {"GK", "DEF", "MID", "FWD"}

\* Formation Rules of the README: the allowed count of each position.
FormationRange ==
    ("GK" :> [min |-> 1, max |-> 1]) @@ ("DEF" :> [min |-> 3, max |-> 5])
    @@ ("MID" :> [min |-> 2, max |-> 5]) @@ ("FWD" :> [min |-> 1, max |-> 3])

\* The players of the database, those held back for the full squad included.
AllPlayers == Players \cup HeldPlayers

\* player.position
Position(player) ==
    CASE player % 4 = 0 -> "GK"
      [] player % 4 = 1 -> "DEF"
      [] player % 4 = 2 -> "MID"
      [] OTHER -> "FWD"

\* playersByPosition of the render: players.filter(p => p.position === ...)
playersByPosition ==
    [position \in Positions |->
        {p \in teamDetailPage.teamDetail.players : Position(p) = position}]

\* The "Need at least" thresholds of the four warnings.
NeedAtLeast == ("GK" :> 1) @@ ("DEF" :> 3) @@ ("MID" :> 2) @@ ("FWD" :> 1)

\* The warning span of a position heading is rendered.
PositionWarning(position) ==
    Cardinality(playersByPosition[position]) < NeedAtLeast[position]

\* The count of a position is outside the range the formation rule allows.
OutsideRange(position) ==
    \/ Cardinality(playersByPosition[position]) < FormationRange[position].min
    \/ Cardinality(playersByPosition[position]) > FormationRange[position].max

\* The n first players of a position.
FirstOf(position, n) ==
    {p \in AllPlayers :
        /\ Position(p) = position
        /\ Cardinality({q \in AllPlayers : Position(q) = position /\ q < p}) < n}

\* The rosters the page is shown with: every count of every position from
\* none to MaxOver above the maximum, within the squad limit.
Rosters ==
    {r \in {FirstOf("GK", gk) \cup FirstOf("DEF", def) \cup FirstOf("MID", mid)
               \cup FirstOf("FWD", fwd) :
              gk \in 0 .. (FormationRange["GK"].max + MaxOver),
              def \in 0 .. (FormationRange["DEF"].max + MaxOver),
              mid \in 0 .. (FormationRange["MID"].max + MaxOver),
              fwd \in 0 .. (FormationRange["FWD"].max + MaxOver)} :
        Cardinality(r) <= SquadMax}

InitFormation ==
    /\ InitServer
    /\ LeagueNotMounted
    /\ OffersNotMounted
    /\ FreeAgentNotMounted
    /\ MarketNotMounted
    /\ \E r \in Rosters : fantasyTeam = SrvTeam(SumPrices(r) + TotalBudget, r)
    /\ teamDetailPage = [TeamPageUnmounted EXCEPT !.loading = TRUE]
    /\ teamNet = [TeamNetIdle EXCEPT !.loads = 1]

NextFormation ==
    \/ loadTeamDetailDone
    \/ loadTeamDetailFailed

SpecFormation == InitFormation /\ [][NextFormation]_vars

\* C13: on the page of every roster, a position is flagged if and only if its
\* count is outside the allowed range (GK exactly 1, DEF 3 to 5, MID 2 to 5,
\* FWD 1 to 3), above the maximum as well as below the minimum.
C13_FlaggedIffOutsideRange ==
    PageShown => \A position \in Positions :
                    PositionWarning(position) <=> OutsideRange(position)

(***************************************************************************)
(* Client: the join form of MyFantasyLeagues.tsx, Public Leagues tab       *)
(***************************************************************************)
\* loadPublicLeagues of the page: one more call in flight.
PageLoadStarted == [leagueNet EXCEPT !.pageLoads = @ + 1]

\* The Join League button: setShowJoinForm(true) and, on the public tab,
\* loadPublicLeagues().
openJoinForm ==
    /\ ~myFantasyLeagues.showJoinForm
    /\ myFantasyLeagues.navigated = 0
    /\ leagueNet.pageLoads < MaxInflight
    /\ myFantasyLeagues' = [myFantasyLeagues EXCEPT !.showJoinForm = TRUE]
    /\ leagueNet' = IF myFantasyLeagues.joinTab = "public" THEN PageLoadStarted
                    ELSE leagueNet
    /\ UNCHANGED <<leagues, joinLeagueModal, updateLeagueModal, notLeagueVars>>

\* The tabs of the form; Public Leagues runs loadPublicLeagues().
setJoinTab(tab) ==
    /\ myFantasyLeagues.showJoinForm
    /\ tab = "public" => leagueNet.pageLoads < MaxInflight
    /\ myFantasyLeagues' = [myFantasyLeagues EXCEPT !.joinTab = tab]
    /\ leagueNet' = IF tab = "public" THEN PageLoadStarted ELSE leagueNet
    /\ UNCHANGED <<leagues, joinLeagueModal, updateLeagueModal, notLeagueVars>>

\* Cancel.
closeJoinForm ==
    /\ myFantasyLeagues.showJoinForm
    /\ myFantasyLeagues' = [myFantasyLeagues EXCEPT !.showJoinForm = FALSE]
    /\ UNCHANGED <<leagues, leagueNet, joinLeagueModal, updateLeagueModal,
                   notLeagueVars>>

\* loadPublicLeagues answered.
pagePublicLeaguesLoaded ==
    /\ leagueNet.pageLoads > 0
    /\ myFantasyLeagues' = [myFantasyLeagues EXCEPT !.publicLeagues = SrvPublicLeagues]
    /\ leagueNet' = [leagueNet EXCEPT !.pageLoads = @ - 1]
    /\ UNCHANGED <<leagues, joinLeagueModal, updateLeagueModal, notLeagueVars>>

\* getPublicLeagues catches the error and returns [].
pagePublicLeaguesFailed ==
    /\ leagueNet.pageLoads > 0
    /\ myFantasyLeagues' = [myFantasyLeagues EXCEPT !.publicLeagues = NoLeagues]
    /\ leagueNet' = [leagueNet EXCEPT !.pageLoads = @ - 1]
    /\ UNCHANGED <<leagues, joinLeagueModal, updateLeagueModal, notLeagueVars>>

\* The league is listed on the Public Leagues tab with its Join button; the
\* button has no disabled attribute.
PageJoinShown(id) ==
    /\ myFantasyLeagues.showJoinForm
    /\ myFantasyLeagues.navigated = 0
    /\ myFantasyLeagues.joinTab = "public"
    /\ id \in DOMAIN myFantasyLeagues.publicLeagues

\* handleJoinPublicLeague up to the call: window.confirm, then joinLeagueById.
handleJoinPublicLeague(id, confirmed) ==
    /\ PageJoinShown(id)
    /\ leagueNet.pageJoin = NoLeagueCall
    /\ leagueNet' = IF confirmed
                    THEN [leagueNet EXCEPT !.pageJoin =
                            [NoLeagueCall EXCEPT !.stage = "req", !.league_id = id]]
                    ELSE leagueNet
    /\ UNCHANGED <<leagues, myFantasyLeagues, joinLeagueModal, updateLeagueModal,
                   notLeagueVars>>

\* The server answers a join of the page.
ServePageJoin ==
    LET res == SrvJoinLeague(leagueNet.pageJoin.league_id) IN
    /\ leagueNet.pageJoin.stage = "req"
    /\ leagues' = res.leagues
    /\ leagueNet' = [leagueNet EXCEPT !.pageJoin.stage = "resp",
                                      !.pageJoin.ok = res.ok,
                                      !.pageJoin.reply = IF res.ok THEN "ok" ELSE "http",
                                      !.pageJoin.detail = res.detail]
    /\ UNCHANGED <<myFantasyLeagues, joinLeagueModal, updateLeagueModal,
                   notLeagueVars>>

\* The join of the page does not reach the server.
PageJoinNetworkError ==
    /\ leagueNet.pageJoin.stage = "req"
    /\ leagueNet' = [leagueNet EXCEPT !.pageJoin.stage = "resp",
                                      !.pageJoin.ok = FALSE,
                                      !.pageJoin.reply = "network"]
    /\ UNCHANGED <<leagues, myFantasyLeagues, joinLeagueModal, updateLeagueModal,
                   notLeagueVars>>

\* handleJoinPublicLeague after the await: navigate to the team page of the
\* league, or the alert.
pageJoinDone ==
    /\ leagueNet.pageJoin.stage = "resp"
    /\ myFantasyLeagues' =
          IF leagueNet.pageJoin.ok
          THEN [myFantasyLeagues EXCEPT !.navigated = leagueNet.pageJoin.league_id]
          ELSE [myFantasyLeagues EXCEPT
                   !.alert = "Failed to join league. Please try again."]
    /\ leagueNet' = [leagueNet EXCEPT !.pageJoin = NoLeagueCall]
    /\ UNCHANGED <<leagues, joinLeagueModal, updateLeagueModal, notLeagueVars>>

(***************************************************************************)
(* Specification of the join form of MyFantasyLeagues                      *)
(***************************************************************************)
\* The leagues of the server: a full one and one with a free place.
InitLeagues ==
    leagues = [id \in LeagueIds |->
                 SrvLeague(<<"L">>, IF id = 1 THEN 2 ELSE 1, 2)]

InitLeaguesPage ==
    /\ InitServer
    /\ OffersNotMounted
    /\ FreeAgentNotMounted
    /\ MarketNotMounted
    /\ TeamPageNotMounted
    /\ InitLeagues
    /\ joinLeagueModal = JoinModalClosed
    /\ myFantasyLeagues = JoinFormClosed
    /\ updateLeagueModal = UpdateModalClosed
    /\ leagueNet = LeagueNetIdle
    /\ ScorerNotRun
    /\ AppNotMounted

NextLeaguesPage ==
    \/ openJoinForm
    \/ \E tab \in {"code", "public"} : setJoinTab(tab)
    \/ closeJoinForm
    \/ pagePublicLeaguesLoaded
    \/ pagePublicLeaguesFailed
    \/ \E id \in LeagueIds, confirmed \in BOOLEAN : handleJoinPublicLeague(id, confirmed)
    \/ ServePageJoin
    \/ PageJoinNetworkError
    \/ pageJoinDone
    \/ \E id \in LeagueIds : OtherUserJoins(id)

SpecLeaguesPage == InitLeaguesPage /\ [][NextLeaguesPage]_vars

(***************************************************************************)
(* Client: JoinLeagueModal.tsx, Browse Public Leagues tab                  *)
(***************************************************************************)
\* loadPublicLeagues of the modal up to the call.
ModalLoadStarted(modal) == [modal EXCEPT !.isLoading = TRUE, !.error = ""]

\* The parent opens the modal; the effect on [isOpen, activeTab] loads the
\* public leagues when the tab is browse.
openJoinModal ==
    /\ ~joinLeagueModal.isOpen
    /\ leagueNet.modalLoads < MaxInflight
    /\ IF joinLeagueModal.activeTab = "browse"
       THEN /\ joinLeagueModal' =
                  [ModalLoadStarted(joinLeagueModal) EXCEPT !.isOpen = TRUE]
            /\ leagueNet' = [leagueNet EXCEPT !.modalLoads = @ + 1]
       ELSE /\ joinLeagueModal' = [joinLeagueModal EXCEPT !.isOpen = TRUE]
            /\ UNCHANGED leagueNet
    /\ UNCHANGED <<leagues, myFantasyLeagues, updateLeagueModal, notLeagueVars>>

\* The tab buttons; the effect runs when activeTab changes to browse.
setActiveTabOfModal(tab) ==
    /\ joinLeagueModal.isOpen
    /\ tab # joinLeagueModal.activeTab
    /\ IF tab = "browse"
       THEN /\ leagueNet.modalLoads < MaxInflight
            /\ joinLeagueModal' =
                  [ModalLoadStarted(joinLeagueModal) EXCEPT !.activeTab = tab]
            /\ leagueNet' = [leagueNet EXCEPT !.modalLoads = @ + 1]
       ELSE /\ joinLeagueModal' = [joinLeagueModal EXCEPT !.activeTab = tab]
            /\ UNCHANGED leagueNet
    /\ UNCHANGED <<leagues, myFantasyLeagues, updateLeagueModal, notLeagueVars>>

\* loadPublicLeagues answered.
modalPublicLeaguesLoaded ==
    /\ leagueNet.modalLoads > 0
    /\ joinLeagueModal' = [joinLeagueModal EXCEPT !.publicLeagues = SrvPublicLeagues,
                                                  !.isLoading = FALSE]
    /\ leagueNet' = [leagueNet EXCEPT !.modalLoads = @ - 1]
    /\ UNCHANGED <<leagues, myFantasyLeagues, updateLeagueModal, notLeagueVars>>

\* getPublicLeagues catches the error and returns []; the catch of
\* loadPublicLeagues is never entered.
modalPublicLeaguesFailed ==
    /\ leagueNet.modalLoads > 0
    /\ joinLeagueModal' = [joinLeagueModal EXCEPT !.publicLeagues = NoLeagues,
                                                  !.isLoading = FALSE]
    /\ leagueNet' = [leagueNet EXCEPT !.modalLoads = @ - 1]
    /\ UNCHANGED <<leagues, myFantasyLeagues, updateLeagueModal, notLeagueVars>>

\* The league is listed on the Browse tab.
ModalJoinShown(id) ==
    /\ joinLeagueModal.isOpen
    /\ joinLeagueModal.activeTab = "browse"
    /\ ~joinLeagueModal.isLoading
    /\ id \in DOMAIN joinLeagueModal.publicLeagues

\* disabled={isJoining || league.participants >= league.max_participants}
ModalJoinDisabled(id) ==
    \/ joinLeagueModal.isJoining
    \/ joinLeagueModal.publicLeagues[id].participants
          >= joinLeagueModal.publicLeagues[id].max_participants

\* The Join button and handleJoinById up to the call (the user is logged in).
handleJoinById(id) ==
    /\ ModalJoinShown(id)
    /\ ~ModalJoinDisabled(id)
    /\ leagueNet.modalJoin = NoLeagueCall
    /\ joinLeagueModal' = [joinLeagueModal EXCEPT !.error = "", !.successMessage = "",
                                                  !.isJoining = TRUE]
    /\ leagueNet' = [leagueNet EXCEPT !.modalJoin =
                        [NoLeagueCall EXCEPT !.stage = "req", !.league_id = id]]
    /\ UNCHANGED <<leagues, myFantasyLeagues, updateLeagueModal, notLeagueVars>>

\* The server answers a join of the modal.
ServeModalJoin ==
    LET res == SrvJoinLeague(leagueNet.modalJoin.league_id) IN
    /\ leagueNet.modalJoin.stage = "req"
    /\ leagues' = res.leagues
    /\ leagueNet' = [leagueNet EXCEPT !.modalJoin.stage = "resp",
                                      !.modalJoin.ok = res.ok,
                                      !.modalJoin.reply = IF res.ok THEN "ok" ELSE "http",
                                      !.modalJoin.detail = res.detail]
    /\ UNCHANGED <<joinLeagueModal, myFantasyLeagues, updateLeagueModal,
                   notLeagueVars>>

\* The join of the modal does not reach the server.
ModalJoinNetworkError ==
    /\ leagueNet.modalJoin.stage = "req"
    /\ leagueNet' = [leagueNet EXCEPT !.modalJoin.stage = "resp",
                                      !.modalJoin.ok = FALSE,
                                      !.modalJoin.reply = "network"]
    /\ UNCHANGED <<leagues, joinLeagueModal, myFantasyLeagues, updateLeagueModal,
                   notLeagueVars>>

\* What the catch of handleJoinById shows: the error is the one
\* leagueService.joinLeagueById throws, which carries no response.
JoinErrorShown(build, call) ==
    DetailOr(joinLeagueByIdError(build, call), "Failed to join league")

\* handleJoinById after the await: the success message and the timer that
\* closes the modal, or the error; finally setIsJoining(false).
joinByIdDone ==
    /\ leagueNet.modalJoin.stage = "resp"
    /\ \E build \in ServiceBuilds :
          joinLeagueModal' =
             IF leagueNet.modalJoin.ok
             THEN [joinLeagueModal EXCEPT !.successMessage = "Successfully joined",
                                          !.timer = TRUE, !.isJoining = FALSE]
             ELSE [joinLeagueModal EXCEPT
                      !.error = JoinErrorShown(build, leagueNet.modalJoin),
                      !.isJoining = FALSE]
    /\ leagueNet' = [leagueNet EXCEPT !.modalJoin = NoLeagueCall]
    /\ UNCHANGED <<leagues, myFantasyLeagues, updateLeagueModal, notLeagueVars>>

\* setTimeout(..., 1500): onSuccess() and onClose().
joinTimerFires ==
    /\ joinLeagueModal.timer
    /\ joinLeagueModal' = [joinLeagueModal EXCEPT !.timer = FALSE, !.isOpen = FALSE]
    /\ UNCHANGED <<leagues, leagueNet, myFantasyLeagues, updateLeagueModal,
                   notLeagueVars>>

\* handleClose
handleCloseJoinModal ==
    /\ joinLeagueModal.isOpen
    /\ joinLeagueModal' = [joinLeagueModal EXCEPT !.error = "", !.successMessage = "",
                                                  !.activeTab = "code",
                                                  !.isOpen = FALSE]
    /\ UNCHANGED <<leagues, leagueNet, myFantasyLeagues, updateLeagueModal,
                   notLeagueVars>>

InitJoinModal ==
    /\ InitServer
    /\ OffersNotMounted
    /\ FreeAgentNotMounted
    /\ MarketNotMounted
    /\ TeamPageNotMounted
    /\ InitLeagues
    /\ joinLeagueModal = JoinModalClosed
    /\ myFantasyLeagues = JoinFormClosed
    /\ updateLeagueModal = UpdateModalClosed
    /\ leagueNet = LeagueNetIdle
    /\ ScorerNotRun
    /\ AppNotMounted

NextJoinModal ==
    \/ openJoinModal
    \/ \E tab \in {"code", "browse"} : setActiveTabOfModal(tab)
    \/ modalPublicLeaguesLoaded
    \/ modalPublicLeaguesFailed
    \/ \E id \in LeagueIds : handleJoinById(id)
    \/ ServeModalJoin
    \/ ModalJoinNetworkError
    \/ joinByIdDone
    \/ joinTimerFires
    \/ handleCloseJoinModal
    \/ \E id \in LeagueIds : OtherUserJoins(id)

SpecJoinModal == InitJoinModal /\ [][NextJoinModal]_vars

\* A join request for the league goes out in this step, and the counts the
\* component that sends it displays for the league.
PageJoinSent(id) ==
    /\ leagueNet.pageJoin.stage = "none"
    /\ leagueNet'.pageJoin.stage = "req"
    /\ leagueNet'.pageJoin.league_id = id

ModalJoinSent(id) ==
    /\ leagueNet.modalJoin.stage = "none"
    /\ leagueNet'.modalJoin.stage = "req"
    /\ leagueNet'.modalJoin.league_id = id

DisplayedFull(league) == league.participants >= league.max_participants

C14_Step ==
    \A id \in LeagueIds :
        /\ PageJoinSent(id) => ~DisplayedFull(myFantasyLeagues.publicLeagues[id])
        /\ ModalJoinSent(id) => ~DisplayedFull(joinLeagueModal.publicLeagues[id])

\* C14: the participant count of a league never exceeds max_participants
\* through joining, and the client issues no join request for a public league
\* whose displayed participants count is greater than or equal to its
\* max_participants.
C14_NoJoinOfFullLeague ==
    /\ [](\A id \in LeagueIds : leagues[id].participants <= leagues[id].max_participants)
    /\ [][C14_Step]_vars

(***************************************************************************)
(* Client and server: updating a league (UpdateLeagueModal.tsx)            *)
(***************************************************************************)
\* The limits of max_participants in handleSubmit.
MinParticipants == 2
MaxParticipants == 100

\* String.prototype.trim on a sequence of characters.
RECURSIVE TrimStart(_)
TrimStart(text) ==
    IF text # <<>> /\ Head(text) = " " THEN TrimStart(Tail(text)) ELSE text

RECURSIVE TrimEnd(_)
TrimEnd(text) ==
    IF text # <<>> /\ text[Len(text)] = " "
    THEN TrimEnd(SubSeq(text, 1, Len(text) - 1))
    ELSE text

trim(text) == TrimEnd(TrimStart(text))

\* What is typed into the name field and what the slider may hand to its
\* onChange; the slider itself has min={league.participants} and max="100".
NameInputs == {<<" ">>, <<" ", "M", " ">>}

MaxInputs == {1, 2, MaxParticipants, MaxParticipants + 1}

\* PUT /leagues/{id}: participant count <= max_participants.
SrvUpdateLeague(id, data) ==
    IF data.max_participants < leagues[id].participants
    THEN SrvLeagueFail("Max participants cannot be less than current participants")
    ELSE [ok |-> TRUE, detail |-> "",
          leagues |-> [leagues EXCEPT ![id].name = data.name,
                                      ![id].max_participants = data.max_participants]]

\* handleUpdateLeague of the league manager mounts the modal on a league of
\* its list, here as the server has it when the modal opens; the useState
\* initial values are taken from it.
openUpdateModal(id) ==
    /\ ~updateLeagueModal.isOpen
    /\ leagueNet.update = NoLeagueCall
    /\ leagueNet.delete = NoLeagueCall
    /\ updateLeagueModal' =
          [isOpen |-> TRUE, league |-> leagues[id], league_id |-> id,
           formData |-> [name |-> leagues[id].name,
                         max_participants |-> leagues[id].max_participants],
           isSubmitting |-> FALSE, isDeleting |-> FALSE, error |-> ""]
    /\ UNCHANGED <<leagues, leagueNet, joinLeagueModal, myFantasyLeagues,
                   notLeagueVars>>

\* onChange of the name field.
setFormName(name) ==
    /\ updateLeagueModal.isOpen
    /\ updateLeagueModal' = [updateLeagueModal EXCEPT !.formData.name = name]
    /\ UNCHANGED <<leagues, leagueNet, joinLeagueModal, myFantasyLeagues,
                   notLeagueVars>>

\* onChange of the slider: parseInt(e.target.value).
setFormMaxParticipants(n) ==
    /\ updateLeagueModal.isOpen
    /\ updateLeagueModal' = [updateLeagueModal EXCEPT !.formData.max_participants = n]
    /\ UNCHANGED <<leagues, leagueNet, joinLeagueModal, myFantasyLeagues,
                   notLeagueVars>>

\* !formData.name.trim()
NameBlank == trim(updateLeagueModal.formData.name) = <<>>

\* Mutant: the participants of the league are not looked at.
BelowParticipants_Never == FALSE

\* formData.max_participants < league.participants
BelowParticipants ==
    updateLeagueModal.formData.max_participants < updateLeagueModal.league.participants

\* formData.max_participants < 2 || formData.max_participants > 100
OutOfLimits ==
    \/ updateLeagueModal.formData.max_participants < MinParticipants
    \/ updateLeagueModal.formData.max_participants > MaxParticipants

\* handleSubmit up to the call; the submit button is disabled while
\* isSubmitting or isDeleting.
handleSubmit ==
    /\ updateLeagueModal.isOpen
    /\ ~updateLeagueModal.isSubmitting
    /\ ~updateLeagueModal.isDeleting
    /\ IF NameBlank
       THEN /\ updateLeagueModal' =
                  [updateLeagueModal EXCEPT !.error = "League name is required"]
            /\ UNCHANGED leagueNet
       ELSE IF BelowParticipants
       THEN /\ updateLeagueModal' =
                  [updateLeagueModal EXCEPT !.error =
                      "Max participants cannot be less than current participants"]
            /\ UNCHANGED leagueNet
       ELSE IF OutOfLimits
       THEN /\ updateLeagueModal' =
                  [updateLeagueModal EXCEPT !.error =
                      "Max participants must be between 2 and 100"]
            /\ UNCHANGED leagueNet
       ELSE /\ updateLeagueModal' =
                  [updateLeagueModal EXCEPT !.error = "", !.isSubmitting = TRUE]
            /\ leagueNet' = [leagueNet EXCEPT !.update =
                  [NoLeagueCall EXCEPT !.stage = "req",
                                       !.league_id = updateLeagueModal.league_id,
                                       !.data = updateLeagueModal.formData]]
    /\ UNCHANGED <<leagues, joinLeagueModal, myFantasyLeagues, notLeagueVars>>

\* The server answers the update.
ServeUpdate ==
    LET res == SrvUpdateLeague(leagueNet.update.league_id, leagueNet.update.data) IN
    /\ leagueNet.update.stage = "req"
    /\ leagues' = res.leagues
    /\ leagueNet' = [leagueNet EXCEPT !.update.stage = "resp", !.update.ok = res.ok,
                                      !.update.reply = IF res.ok THEN "ok" ELSE "http",
                                      !.update.detail = res.detail]
    /\ UNCHANGED <<joinLeagueModal, myFantasyLeagues, updateLeagueModal,
                   notLeagueVars>>

\* The update does not reach the server.
UpdateNetworkError ==
    /\ leagueNet.update.stage = "req"
    /\ leagueNet' = [leagueNet EXCEPT !.update.stage = "resp", !.update.ok = FALSE,
                                      !.update.reply = "network"]
    /\ UNCHANGED <<leagues, joinLeagueModal, myFantasyLeagues, updateLeagueModal,
                   notLeagueVars>>

\* handleSubmit after the await: onSuccess() and onClose() unmount the modal;
\* the catch shows err.response?.data?.detail || err.message of the error
\* leagueService.updateLeague throws.
updateDone ==
    /\ leagueNet.update.stage = "resp"
    /\ \E build \in ServiceBuilds :
          updateLeagueModal' =
             IF ~updateLeagueModal.isOpen \/ leagueNet.update.ok
             THEN UpdateModalClosed
             ELSE [updateLeagueModal EXCEPT
                      !.error = DetailOr(updateLeagueError(build, leagueNet.update),
                                         updateLeagueError(build, leagueNet.update).message),
                      !.isSubmitting = FALSE]
    /\ leagueNet' = [leagueNet EXCEPT !.update = NoLeagueCall]
    /\ UNCHANGED <<leagues, joinLeagueModal, myFantasyLeagues, notLeagueVars>>

\* onClose: the league manager unmounts the modal.
closeUpdateModal ==
    /\ updateLeagueModal.isOpen
    /\ ~updateLeagueModal.isSubmitting
    /\ ~updateLeagueModal.isDeleting
    /\ updateLeagueModal' = UpdateModalClosed
    /\ UNCHANGED <<leagues, leagueNet, joinLeagueModal, myFantasyLeagues,
                   notLeagueVars>>

InitUpdate ==
    /\ InitServer
    /\ OffersNotMounted
    /\ FreeAgentNotMounted
    /\ MarketNotMounted
    /\ TeamPageNotMounted
    /\ InitLeagues
    /\ joinLeagueModal = JoinModalClosed
    /\ myFantasyLeagues = JoinFormClosed
    /\ updateLeagueModal = UpdateModalClosed
    /\ leagueNet = LeagueNetIdle
    /\ ScorerNotRun
    /\ AppNotMounted

NextUpdate ==
    \/ \E id \in LeagueIds : openUpdateModal(id)
    \/ \E name \in NameInputs : setFormName(name)
    \/ \E n \in MaxInputs : setFormMaxParticipants(n)
    \/ handleSubmit
    \/ ServeUpdate
    \/ UpdateNetworkError
    \/ updateDone
    \/ closeUpdateModal
    \/ \E id \in LeagueIds : OtherUserJoins(id)

SpecUpdate == InitUpdate /\ [][NextUpdate]_vars

\* The update request goes out in this step.
UpdateSent == leagueNet.update.stage = "none" /\ leagueNet'.update.stage = "req"

\* What the form must hold for the update to be sent.
UpdateAllowed ==
    /\ trim(updateLeagueModal.formData.name) # <<>>
    /\ updateLeagueModal.formData.max_participants
          >= updateLeagueModal.league.participants
    /\ updateLeagueModal.formData.max_participants \in MinParticipants .. MaxParticipants

C15_Step ==
    /\ UpdateSent => UpdateAllowed
    /\ handleSubmit /\ UpdateAllowed => UpdateSent
    /\ handleSubmit /\ ~UpdateAllowed =>
          /\ leagueNet' = leagueNet
          /\ updateLeagueModal'.error # ""

\* C15: updating a league never makes its participant count exceed
\* max_participants; handleSubmit sends the update only when the name is not
\* blank and the new max_participants is at least the participant count of the
\* league and within 2..100, and otherwise sends nothing and shows an error.
C15_UpdateOnlyWhenAllowed ==
    /\ [](\A id \in LeagueIds : leagues[id].participants <= leagues[id].max_participants)
    /\ [][C15_Step]_vars

\* An update below the participants of the league was refused with the error
\* on display, and no call is in flight.
C15_Witness ==
    /\ updateLeagueModal.isOpen
    /\ trim(updateLeagueModal.formData.name) # <<>>
    /\ updateLeagueModal.formData.max_participants < updateLeagueModal.league.participants
    /\ updateLeagueModal.error = "Max participants cannot be less than current participants"
    /\ leagueNet.update = NoLeagueCall

(***************************************************************************)
(* Rejections and what the user is shown                                   *)
(***************************************************************************)
\* What the components put in front of the reason they show.
MessagePrefixes == {"", FailedAlert}

\* The message shown contains the reason the server gave.
ShowsReason(shown, reason) == \E prefix \in MessagePrefixes : shown = prefix \o reason

\* The server's refusal of the call, with its errors list or detail message,
\* is handed to the component in this step.
TransferRejectionShown ==
    /\ faNet.kind = "transfer"
    /\ faNet.stage = "resp"
    /\ ~faNet.ok
    /\ faNet.reply \in {"result", "http"}
    /\ faNet' = NoCall

OfferRejectionShown ==
    /\ marketNet.kind = "create"
    /\ marketNet.stage = "resp"
    /\ ~marketNet.ok
    /\ marketNet.reply \in {"result", "http"}
    /\ marketNet' = NoOfferCall

ModalJoinRejectionShown ==
    /\ leagueNet.modalJoin.stage = "resp"
    /\ leagueNet.modalJoin.reply = "http"
    /\ AxiosError(leagueNet.modalJoin).response.detail # ""
    /\ leagueNet'.modalJoin = NoLeagueCall

PageJoinRejectionShown ==
    /\ leagueNet.pageJoin.stage = "resp"
    /\ leagueNet.pageJoin.reply = "http"
    /\ AxiosError(leagueNet.pageJoin).response.detail # ""
    /\ leagueNet'.pageJoin = NoLeagueCall

C16_Step ==
    /\ TransferRejectionShown => ShowsReason(freeAgentTransfer'.error, faNet.err)
    /\ OfferRejectionShown => ShowsReason(userTransferMarket'.alert, marketNet.err)
    /\ ModalJoinRejectionShown =>
          ShowsReason(joinLeagueModal'.error,
                      AxiosError(leagueNet.modalJoin).response.detail)
    /\ PageJoinRejectionShown =>
          ShowsReason(myFantasyLeagues'.alert,
                      AxiosError(leagueNet.pageJoin).response.detail)

\* C16: whenever the server rejects a free-agent transfer, an offer creation
\* or a league join with an errors list or a detail message, the message shown
\* to the user contains that reason.
C16_RejectionShowsReason == [][C16_Step]_vars

(***************************************************************************)
(* The net cost shown in the confirmation dialog of FreeAgentTransfer      *)
(***************************************************************************)
\* Number.prototype.toFixed(1) on a price counted in tenths: the sign, the
\* digits before the point and the digit after it.
toFixed1(tenths) ==
    LET magnitude == IF tenths < 0 THEN 0 - tenths ELSE tenths IN
    [negative |-> tenths < 0, whole |-> magnitude \div 10, tenth |-> magnitude % 10]

\* The number a text of that form reads as, in tenths.
ReadFixed1(text) ==
    (IF text.negative THEN -1 ELSE 1) * (10 * text.whole + text.tenth)

\* The dialog is open on a player to sign.
DialogShown ==
    /\ freeAgentTransfer.showDialog
    /\ freeAgentTransfer.selectedPlayerIn # NoPlayer

\* Mutant: the price of the player to drop is left out.
NetCostShown_WithoutDrop == toFixed1(Price(freeAgentTransfer.selectedPlayerIn))

\* The Net Cost line of the dialog.
NetCostShown ==
    IF freeAgentTransfer.selectedPlayerOut # NoPlayer
    THEN toFixed1(Price(freeAgentTransfer.selectedPlayerIn)
                    - Price(freeAgentTransfer.selectedPlayerOut))
    ELSE toFixed1(Price(freeAgentTransfer.selectedPlayerIn))

C17_Step ==
    DialogShown /\ TransferSent => ReadFixed1(NetCostShown) = CostOnTheWire'

\* C17: the net cost of a free-agent transfer is price(player_in) minus
\* price(player_out), the latter 0 when no player is dropped; the net cost the
\* dialog shows is that value for the players currently selected, and it is
\* the net cost of the transfer the dialog sends.
C17_NetCostShown ==
    /\ [](DialogShown =>
            ReadFixed1(NetCostShown)
               = SrvNetCost(freeAgentTransfer.selectedPlayerIn,
                            freeAgentTransfer.selectedPlayerOut))
    /\ [][C17_Step]_vars

\* The dialog shows a negative net cost: the player to drop costs more than
\* the player to sign.
C17_Witness ==
    /\ DialogShown
    /\ freeAgentTransfer.selectedPlayerOut # NoPlayer
    /\ NetCostShown.negative
    /\ ReadFixed1(NetCostShown)
          = Price(freeAgentTransfer.selectedPlayerIn)
               - Price(freeAgentTransfer.selectedPlayerOut)

(***************************************************************************)
(* Server: participation points of the matchday scorer                     *)
(***************************************************************************)
\* Points are counted in halves: 2 is 1.0 and 1 is 0.5.
\* Mutant: the table of the README, "60+ minutes 1, < 60 minutes 0.5".
SrvParticipationPoints_Table(minutes) == IF minutes >= 60 THEN 2 ELSE 1

\* Step 1 of the Matchday Scorer: 1.0 if minutes >= 60, else 0.5 if
\* minutes > 0, else 0.
SrvParticipationPoints(minutes) ==
    IF minutes >= 60 THEN 2
    ELSE IF minutes > 0 THEN 1
    ELSE 0

\* The upstream feed records the minutes a player played; a record is
\* immutable once made.
RecordStats(minutes) ==
    /\ ~matchdayStats.recorded
    /\ matchdayStats' = [matchdayStats EXCEPT !.recorded = TRUE, !.minutes = minutes]
    /\ UNCHANGED <<serverVars, offersVars, faVars, marketVars, teamVars, leagueVars,
                   appVars>>

\* The scorer computes the participation points of the record.
ScoreMatchday ==
    /\ matchdayStats.recorded
    /\ ~matchdayStats.scored
    /\ matchdayStats' =
          [matchdayStats EXCEPT !.scored = TRUE,
              !.participation = SrvParticipationPoints(matchdayStats.minutes)]
    /\ UNCHANGED <<serverVars, offersVars, faVars, marketVars, teamVars, leagueVars,
                   appVars>>

InitScorer ==
    /\ InitServer
    /\ LeagueNotMounted
    /\ OffersNotMounted
    /\ FreeAgentNotMounted
    /\ MarketNotMounted
    /\ TeamPageNotMounted

NextScorer ==
    \/ \E minutes \in 0 .. MaxMinutes : RecordStats(minutes)
    \/ ScoreMatchday

SpecScorer == InitScorer /\ [][NextScorer]_vars

\* C18: participation points are 1.0 when minutes >= 60, 0.5 when
\* 0 < minutes < 60 and 0 when minutes = 0: a player who did not play
\* receives no participation points.
C18_ParticipationPoints ==
    matchdayStats.scored =>
        /\ matchdayStats.minutes >= 60 => matchdayStats.participation = 2
        /\ matchdayStats.minutes > 0 /\ matchdayStats.minutes < 60
              => matchdayStats.participation = 1
        /\ matchdayStats.minutes = 0 => matchdayStats.participation = 0

\* A player who did not play was scored.
C18_Witness ==
    /\ matchdayStats.scored
    /\ matchdayStats.minutes = 0
    /\ matchdayStats.participation = 0

(***************************************************************************)
(* The offers page after an offer was acted on                             *)
(***************************************************************************)
\* The offer is displayed with one of its buttons.
ActionShown(id) == AcceptShown(id) \/ CancelShown(id)

\* C19: after a successful accept, reject or cancel the offers are reloaded,
\* and from then on the offer acted on is never again displayed with an
\* Accept, Reject or Cancel button, also when the reload fails.
C19_ActedOnOfferHasNoAction ==
    \A id \in offersLog : ~ActionShown(id)

(***************************************************************************)
(* The target of a peer-to-peer offer                                      *)
(***************************************************************************)
\* The teams the market offers for selection.
TeamsOffered == DOMAIN userTransferMarket.teams

C20_Step ==
    OfferSent => /\ marketNet'.to_team_id \in TeamsOffered
                 /\ marketNet'.to_team_id # Me

\* C20: the target of a peer-to-peer offer is never the user's own team: the
\* teams offered for selection exclude the team flagged is_current_user, and
\* the to_team_id of every create-offer request is one of those other teams.
C20_NeverOwnTeam ==
    /\ [](Me \notin TeamsOffered)
    /\ [](userTransferMarket.selectedTeam # 0
            => userTransferMarket.selectedTeam \in TeamsOffered)
    /\ [][C20_Step]_vars

\* A create-offer request is in flight to one of the other teams of the
\* league, all of which are offered.
C20_Witness ==
    /\ marketNet.kind = "create"
    /\ marketNet.stage = "req"
    /\ TeamsOffered = Teams \ {Me}
    /\ marketNet.to_team_id \in TeamsOffered

(***************************************************************************)
(* Server: the session                                                     *)
(***************************************************************************)
\* An answer of an auth endpoint: the session and the accounts after it, and
\* what the response carries.
SrvAuthResult(ok, user, detail, accounts, sess) ==
    [ok |-> ok, user |-> user, detail |-> detail, users |-> accounts,
     session |-> sess]

\* GET /auth/me: the user of the session, or a refusal.
SrvGetCurrentUser ==
    IF session # NoUser
    THEN SrvAuthResult(TRUE, session, "", users, session)
    ELSE SrvAuthResult(FALSE, NoUser, "Not authenticated", users, session)

\* POST /auth/login: a registered user with the right password gets the
\* session.
SrvLogin(user, password) ==
    IF user \in users /\ password
    THEN SrvAuthResult(TRUE, user, "", users, user)
    ELSE SrvAuthResult(FALSE, NoUser, "Invalid email or password", users, session)

\* POST /auth/register: a new email creates the user and logs them in.
SrvRegister(user) ==
    IF user \notin users
    THEN SrvAuthResult(TRUE, user, "", users \cup {user}, user)
    ELSE SrvAuthResult(FALSE, NoUser, "Email already registered", users, session)

\* POST /auth/logout: the session ends.
SrvLogout == SrvAuthResult(TRUE, NoUser, "", users, NoUser)

SrvAuthOp(call, m) ==
    CASE call = "getCurrentUser" -> SrvGetCurrentUser
      [] call = "login" -> SrvLogin(m.arg, m.password)
      [] call = "register" -> SrvRegister(m.arg)
      [] call = "logout" -> SrvLogout

notAuthVars ==
    <<serverVars, offersVars, faVars, marketVars, teamVars, leagueVars, scoreVars,
      browserVars, listVars, managerVars>>

\* The server answers a call of authAPI.
ServeAuth(call) ==
    LET m == authNet[call]
        res == SrvAuthOp(call, m) IN
    /\ m.stage = "req"
    /\ users' = res.users
    /\ session' = res.session
    /\ authNet' = [authNet EXCEPT ![call].stage = "resp", ![call].ok = res.ok,
                                  ![call].user = res.user,
                                  ![call].detail = res.detail]
    /\ UNCHANGED <<authProvider, location, loginForm, registerForm, notAuthVars>>

\* A call that fails on the way to the server: an error without a response.
AuthNetworkError(call) ==
    /\ authNet[call].stage = "req"
    /\ authNet' = [authNet EXCEPT ![call].stage = "resp", ![call].ok = FALSE,
                                  ![call].user = NoUser, ![call].detail = ""]
    /\ UNCHANGED <<users, session, authProvider, location, loginForm,
                   registerForm, notAuthVars>>

\* The session ends on the server without a call of this page (it expires, or
\* the user logs out in another tab).
SessionEnds ==
    /\ session # NoUser
    /\ session' = NoUser
    /\ UNCHANGED <<users, authProvider, location, loginForm, registerForm,
                   authNet, notAuthVars>>

(***************************************************************************)
(* Client: the routes of AppContent                                        *)
(***************************************************************************)
Paths == {"/", "/login", "/register", "/dashboard", "/fantasy-teams",
          "/fantasy-teams/:teamId"}

ProtectedPages == {"Dashboard", "FantasyTeamsList", "TeamDetailPage"}

ProtectedPaths == {"/dashboard", "/fantasy-teams", "/fantasy-teams/:teamId"}

\* What a route renders: a page, or <Navigate to=...>.
Page(name) == [page |-> name, to |-> ""]

Navigate(to) == [page |-> "Navigate", to |-> to]

\* Mutant: the page without the check of user.
ProtectedElement_Unguarded(name) == Page(name)

\* user ? <Page /> : <Navigate to="/login" />
ProtectedElement(name) ==
    IF authProvider.user # NoUser THEN Page(name) ELSE Navigate("/login")

\* HomePage, LoginPage and RegisterPage: if (user) return <Navigate
\* to="/dashboard" />.
PublicElement(name) ==
    IF authProvider.user # NoUser THEN Navigate("/dashboard") ELSE Page(name)

\* The element of <Routes> for a path, once loading is false.
RouteElement(path) ==
    CASE path = "/" -> PublicElement("HomePage")
      [] path = "/login" -> PublicElement("LoginPage")
      [] path = "/register" -> PublicElement("RegisterPage")
      [] path = "/dashboard" -> ProtectedElement("Dashboard")
      [] path = "/fantasy-teams" -> ProtectedElement("FantasyTeamsList")
      [] path = "/fantasy-teams/:teamId" -> ProtectedElement("TeamDetailPage")

\* AppContent: the loading screen while loading, else the routes.
AppContent ==
    IF authProvider.loading THEN Page("Loading") ELSE RouteElement(location)

\* <Navigate> is rendered: the router moves to its target.
Redirect ==
    /\ AppContent.page = "Navigate"
    /\ location' = AppContent.to
    /\ UNCHANGED <<users, session, authProvider, loginForm, registerForm,
                   authNet, notAuthVars>>

\* The user follows a link or enters an address.
GoTo(path) ==
    /\ path # location
    /\ location' = path
    /\ UNCHANGED <<users, session, authProvider, loginForm, registerForm,
                   authNet, notAuthVars>>

(***************************************************************************)
(* Client: AuthProvider, LoginForm, RegisterForm                           *)
(***************************************************************************)
AuthRequest(user, password) ==
    [NoAuthCall EXCEPT !.stage = "req", !.arg = user, !.password = password]

\* Mutant: checkCurrentUser without its finally block.
checkCurrentUserDone_NoFinally ==
    LET m == authNet["getCurrentUser"] IN
    /\ m.stage = "resp"
    /\ authProvider' = [user |-> IF m.ok THEN m.user ELSE NoUser,
                        loading |-> IF m.ok THEN FALSE ELSE authProvider.loading]
    /\ authNet' = [authNet EXCEPT !["getCurrentUser"] = NoAuthCall]
    /\ UNCHANGED <<users, session, location, loginForm, registerForm, notAuthVars>>

\* checkCurrentUser, once authAPI.getCurrentUser() has settled.
checkCurrentUserDone ==
    LET m == authNet["getCurrentUser"] IN
    /\ m.stage = "resp"
    /\ authProvider' = [user |-> IF m.ok THEN m.user ELSE NoUser,
                        loading |-> FALSE]
    /\ authNet' = [authNet EXCEPT !["getCurrentUser"] = NoAuthCall]
    /\ UNCHANGED <<users, session, location, loginForm, registerForm, notAuthVars>>

\* LoginForm.onSubmit up to the call.  The submit button is disabled while
\* isLoading.
onSubmitLogin(user, password) ==
    /\ AppContent = Page("LoginPage")
    /\ ~loginForm.isLoading
    /\ authNet["login"].stage = "none"
    /\ loginForm' = [isLoading |-> TRUE, error |-> ""]
    /\ authNet' = [authNet EXCEPT !["login"] = AuthRequest(user, password)]
    /\ UNCHANGED <<users, session, authProvider, location, registerForm,
                   notAuthVars>>

\* err.response?.data?.detail || fallback
DetailOrFallback(m, fallback) == IF m.detail # "" THEN m.detail ELSE fallback

\* login of AuthProvider and the rest of LoginForm.onSubmit, once the call
\* has settled.
loginDone ==
    LET m == authNet["login"] IN
    /\ m.stage = "resp"
    /\ IF m.ok
       THEN /\ authProvider' = [authProvider EXCEPT !.user = m.user]
            /\ loginForm' = [loginForm EXCEPT !.isLoading = FALSE]
       ELSE /\ UNCHANGED authProvider
            /\ loginForm' = [isLoading |-> FALSE,
                             error |-> DetailOrFallback(m, "Login failed")]
    /\ authNet' = [authNet EXCEPT !["login"] = NoAuthCall]
    /\ UNCHANGED <<users, session, location, registerForm, notAuthVars>>

\* RegisterForm.onSubmit up to the call.
onSubmitRegister(user) ==
    /\ AppContent = Page("RegisterPage")
    /\ ~registerForm.isLoading
    /\ authNet["register"].stage = "none"
    /\ registerForm' = [isLoading |-> TRUE, error |-> ""]
    /\ authNet' = [authNet EXCEPT !["register"] = AuthRequest(user, TRUE)]
    /\ UNCHANGED <<users, session, authProvider, location, loginForm,
                   notAuthVars>>

\* register of AuthProvider and the rest of RegisterForm.onSubmit.
registerDone ==
    LET m == authNet["register"] IN
    /\ m.stage = "resp"
    /\ IF m.ok
       THEN /\ authProvider' = [authProvider EXCEPT !.user = m.user]
            /\ registerForm' = [registerForm EXCEPT !.isLoading = FALSE]
       ELSE /\ UNCHANGED authProvider
            /\ registerForm' = [isLoading |-> FALSE,
                                error |-> DetailOrFallback(m, "Registration failed")]
    /\ authNet' = [authNet EXCEPT !["register"] = NoAuthCall]
    /\ UNCHANGED <<users, session, location, loginForm, notAuthVars>>

\* Mutant: logout that clears the user whatever the call returned.
logoutDone_Always ==
    LET m == authNet["logout"] IN
    /\ m.stage = "resp"
    /\ authProvider' = [authProvider EXCEPT !.user = NoUser]
    /\ authNet' = [authNet EXCEPT !["logout"] = NoAuthCall]
    /\ UNCHANGED <<users, session, location, loginForm, registerForm, notAuthVars>>

\* The Logout button of a displayed page: logout of AuthProvider up to the
\* call.
logout ==
    /\ AppContent.page \in ProtectedPages
    /\ authNet["logout"].stage = "none"
    /\ authNet' = [authNet EXCEPT !["logout"] = AuthRequest(NoUser, FALSE)]
    /\ UNCHANGED <<users, session, authProvider, location, loginForm,
                   registerForm, notAuthVars>>

\* logout of AuthProvider, once authAPI.logout() has settled: setUser(null)
\* runs only after the await returned.
logoutDone ==
    LET m == authNet["logout"] IN
    /\ m.stage = "resp"
    /\ authProvider' = [authProvider EXCEPT
                           !.user = IF m.ok THEN NoUser ELSE authProvider.user]
    /\ authNet' = [authNet EXCEPT !["logout"] = NoAuthCall]
    /\ UNCHANGED <<users, session, location, loginForm, registerForm, notAuthVars>>

\* The application as mounted: useState defaults of AuthProvider and the
\* effect's checkCurrentUser(); the browser may hold a session already.
InitAuth ==
    /\ InitServer
    /\ OffersNotMounted
    /\ FreeAgentNotMounted
    /\ MarketNotMounted
    /\ TeamPageNotMounted
    /\ leagues = [id \in LeagueIds |-> SrvLeague(<<"L">>, 1, 2)]
    /\ joinLeagueModal = JoinModalClosed
    /\ myFantasyLeagues = JoinFormClosed
    /\ updateLeagueModal = UpdateModalClosed
    /\ leagueNet = LeagueNetIdle
    /\ ScorerNotRun
    /\ users = {1}
    /\ session \in {NoUser, 1}
    /\ authProvider = [user |-> NoUser, loading |-> TRUE]
    /\ location \in Paths
    /\ loginForm = FormIdle
    /\ registerForm = FormIdle
    /\ authNet = [AuthNetIdle EXCEPT !["getCurrentUser"] = AuthRequest(NoUser, FALSE)]
    /\ BrowserNotMounted
    /\ TeamsListNotMounted
    /\ ManagerNotMounted

NextAuth ==
    \/ \E call \in AuthCalls : ServeAuth(call)
    \/ \E call \in AuthCalls : AuthNetworkError(call)
    \/ SessionEnds
    \/ Redirect
    \/ \E path \in Paths : GoTo(path)
    \/ checkCurrentUserDone
    \/ \E user \in Users, password \in BOOLEAN : onSubmitLogin(user, password)
    \/ loginDone
    \/ \E user \in Users : onSubmitRegister(user)
    \/ registerDone
    \/ logout
    \/ logoutDone

SpecAuth == InitAuth /\ [][NextAuth]_vars

(***************************************************************************)
(* Protected pages                                                         *)
(***************************************************************************)
\* C21: a protected page (Dashboard, FantasyTeamsList, TeamDetailPage) is
\* rendered only while a user is logged in: whenever loading is false and
\* user is null every protected route redirects to /login, in every state
\* reachable through login, register, logout and the session check.
C21_ProtectedOnlyWhenLoggedIn ==
    /\ AppContent.page \in ProtectedPages => authProvider.user # NoUser
    /\ ~authProvider.loading /\ authProvider.user = NoUser
          => \A path \in ProtectedPaths : RouteElement(path) = Navigate("/login")

\* After a logout that succeeded, the address is still a protected one.
C21_Witness ==
    /\ location \in ProtectedPaths
    /\ ~authProvider.loading
    /\ authProvider.user = NoUser
    /\ session = NoUser
    /\ users # {1}
    /\ AppContent = Navigate("/login")


(***************************************************************************)
(* The initial session check                                               *)
(***************************************************************************)
\* The call of checkCurrentUser settles (the server answers it or it fails),
\* and the continuation of the await then runs.
SpecAuthFair ==
    /\ InitAuth
    /\ [][NextAuth]_vars
    /\ WF_vars(ServeAuth("getCurrentUser") \/ AuthNetworkError("getCurrentUser"))
    /\ WF_vars(checkCurrentUserDone)

\* The step in which checkCurrentUser finishes.
CheckFinishes ==
    /\ authNet["getCurrentUser"].stage = "resp"
    /\ authNet'["getCurrentUser"].stage = "none"

C25_Step ==
    CheckFinishes =>
        /\ ~authProvider'.loading
        /\ authProvider'.user = IF authNet["getCurrentUser"].ok
                                THEN authNet["getCurrentUser"].user
                                ELSE NoUser

\* C25: the initial session check always ends the loading state: loading
\* starts true and eventually becomes false (and stays false) whether
\* getCurrentUser succeeds or fails, with user set to the returned user on
\* success and to null on failure; while loading is true no route is
\* rendered, so no login or register request is issued before the check
\* completes.
C25_SessionCheckEnds ==
    /\ authProvider.loading
    /\ <>[](~authProvider.loading)
    /\ [][C25_Step]_vars
    /\ [](authProvider.loading =>
             /\ AppContent = Page("Loading")
             /\ authNet["login"].stage = "none"
             /\ authNet["register"].stage = "none")

\* The check has failed and finished: nobody is logged in, the login page is
\* displayed.
C25_Witness ==
    /\ ~authProvider.loading
    /\ authProvider.user = NoUser
    /\ authNet = AuthNetIdle
    /\ session = NoUser
    /\ users = {1}
    /\ AppContent = Page("LoginPage")
    /\ loginForm = FormIdle


(***************************************************************************)
(* Failed login, register and logout                                       *)
(***************************************************************************)
\* The step in which the handler of a settled call finishes.
CallFinishes(call) ==
    /\ authNet[call].stage = "resp"
    /\ authNet'[call].stage = "none"

C26_Step ==
    /\ \A call \in {"login", "register", "logout"} :
          CallFinishes(call) /\ ~authNet[call].ok
             => authProvider'.user = authProvider.user
    /\ authProvider'.user # authProvider.user
          => \E call \in AuthCalls : CallFinishes(call) /\ authNet[call].ok

\* C26: a failed login, register or logout request leaves the user of
\* AuthProvider unchanged; user changes only in the step that finishes a call
\* that succeeded, so a failed logout leaves the user logged in and a failed
\* login leaves user null.
C26_FailureKeepsUser == [][C26_Step]_vars

\* A login was refused by the server and the form shows the refusal; nobody
\* is logged in.
C26_Witness ==
    /\ loginForm = [isLoading |-> FALSE, error |-> "Invalid email or password"]
    /\ authNet["login"].stage = "none"
    /\ authProvider.user = NoUser
    /\ ~authProvider.loading


(***************************************************************************)
(* Server: the player search                                               *)
(***************************************************************************)
NumCatalog == 3

\* The players of the catalogue, with name, club and position.
Catalog == 1 .. NumCatalog

CatalogName(p) == IF p % 2 = 1 THEN <<"a", "b">> ELSE <<"b", "c">>

CatalogTeam(p) == IF p <= 2 THEN "A" ELSE "B"

CatalogPosition(p) == IF p = 1 THEN "GK" ELSE "DEF"

\* q occurs in name.
Contains(name, q) ==
    \E i \in 0 .. Len(name) - Len(q) : SubSeq(name, i + 1, i + Len(q)) = q

\* GET /players/search?q=&team=&position=: a filter left out matches all.
SrvSearchByFilters(q, team, position) ==
    {p \in Catalog :
        /\ Contains(CatalogName(p), q)
        /\ team = "" \/ CatalogTeam(p) = team
        /\ position = "" \/ CatalogPosition(p) = position}

(***************************************************************************)
(* Client: PlayerBrowser.searchPlayers                                     *)
(***************************************************************************)
notBrowserVars ==
    <<serverVars, offersVars, faVars, marketVars, teamVars, leagueVars, scoreVars,
      authVars, listVars, managerVars>>

QueryInputs == {<<>>, <<"a">>}

TeamInputs == {"", "A"}

PositionInputs == {"", "GK"}

\* The props of the browser: the players the team holds.
currentPlayerIds == {2}

FreeSearchSlots == {s \in SearchSlots : searchNet[s].stage = "none"}

\* searchPlayers up to the call, with the filters of the render it runs in.
SearchRequest(q, team, position) ==
    [NoSearch EXCEPT !.stage = "req", !.q = q, !.team = team,
                     !.position = position]

\* The effect on [searchQuery, selectedTeam, selectedPosition] after a filter
\* changed: searchPlayers() with the new values.
searchPlayersWith(q, team, position) ==
    /\ FreeSearchSlots # {}
    /\ playerBrowser' = [playerBrowser EXCEPT !.searchQuery = q,
                            !.selectedTeam = team, !.selectedPosition = position,
                            !.loading = TRUE]
    /\ searchNet' = [searchNet EXCEPT
                        ![CHOOSE s \in FreeSearchSlots : TRUE] =
                            SearchRequest(q, team, position)]
    /\ UNCHANGED notBrowserVars

setSearchQuery(q) ==
    /\ q # playerBrowser.searchQuery
    /\ searchPlayersWith(q, playerBrowser.selectedTeam, playerBrowser.selectedPosition)

setSelectedTeamOfBrowser(team) ==
    /\ team # playerBrowser.selectedTeam
    /\ searchPlayersWith(playerBrowser.searchQuery, team, playerBrowser.selectedPosition)

setSelectedPosition(position) ==
    /\ position # playerBrowser.selectedPosition
    /\ searchPlayersWith(playerBrowser.searchQuery, playerBrowser.selectedTeam, position)

\* The server answers a search with the players its filters match.
ServeSearch(s) ==
    LET m == searchNet[s] IN
    /\ m.stage = "req"
    /\ searchNet' = [searchNet EXCEPT ![s].stage = "resp", ![s].ok = TRUE,
                        ![s].players = SrvSearchByFilters(m.q, m.team, m.position)]
    /\ UNCHANGED <<playerBrowser, notBrowserVars>>

SearchNetworkError(s) ==
    /\ searchNet[s].stage = "req"
    /\ searchNet' = [searchNet EXCEPT ![s].stage = "resp", ![s].ok = FALSE]
    /\ UNCHANGED <<playerBrowser, notBrowserVars>>

\* The rest of searchPlayers, once its call has settled: the answer without
\* the players of the team is installed, whichever call it answers.
searchPlayersSettled(s) ==
    LET m == searchNet[s] IN
    /\ m.stage = "resp"
    /\ playerBrowser' =
          IF m.ok
          THEN [playerBrowser EXCEPT !.players = m.players \ currentPlayerIds,
                                     !.loading = FALSE]
          ELSE [playerBrowser EXCEPT !.error = "Failed to load players",
                                     !.loading = FALSE]
    /\ searchNet' = [searchNet EXCEPT ![s] = NoSearch]
    /\ UNCHANGED notBrowserVars

\* The browser as mounted: useState defaults, and the two effects, each of
\* which calls searchPlayers().
InitBrowser ==
    /\ InitServer
    /\ OffersNotMounted
    /\ FreeAgentNotMounted
    /\ MarketNotMounted
    /\ TeamPageNotMounted
    /\ leagues = [id \in LeagueIds |-> SrvLeague(<<"L">>, 1, 2)]
    /\ joinLeagueModal = JoinModalClosed
    /\ myFantasyLeagues = JoinFormClosed
    /\ updateLeagueModal = UpdateModalClosed
    /\ leagueNet = LeagueNetIdle
    /\ ScorerNotRun
    /\ AuthNotMounted
    /\ playerBrowser = [players |-> {}, loading |-> TRUE, error |-> "",
                        searchQuery |-> <<>>, selectedTeam |-> "",
                        selectedPosition |-> ""]
    /\ searchNet = [s \in SearchSlots |->
                      IF s <= 2 THEN SearchRequest(<<>>, "", "") ELSE NoSearch]
    /\ TeamsListNotMounted
    /\ ManagerNotMounted

NextBrowser ==
    \/ \E q \in QueryInputs : setSearchQuery(q)
    \/ \E team \in TeamInputs : setSelectedTeamOfBrowser(team)
    \/ \E position \in PositionInputs : setSelectedPosition(position)
    \/ \E s \in SearchSlots : ServeSearch(s)
    \/ \E s \in SearchSlots : SearchNetworkError(s)
    \/ \E s \in SearchSlots : searchPlayersSettled(s)

SpecBrowser == InitBrowser /\ [][NextBrowser]_vars

\* The list the browser should show for its filter values.
ResultForFilters ==
    SrvSearchByFilters(playerBrowser.searchQuery, playerBrowser.selectedTeam,
                     playerBrowser.selectedPosition) \ currentPlayerIds

\* C22: once all outstanding search requests have completed (none failed),
\* the displayed player list is the result for the most recent filter values
\* (search text, team, position), whatever the order of the responses.
C22_ListMatchesLatestFilters ==
    searchNet = SearchNetIdle /\ playerBrowser.error = ""
        => playerBrowser.players = ResultForFilters


(***************************************************************************)
(* Server: the fantasy teams of the user                                   *)
(***************************************************************************)
SrvTeamsResult(ok, detail, teams) == [ok |-> ok, detail |-> detail, teams |-> teams]

\* DELETE /fantasy-teams/{id}
SrvDeleteTeam(id) ==
    IF \E team \in fantasyTeams : team.id = id
    THEN SrvTeamsResult(TRUE, "", {team \in fantasyTeams : team.id # id})
    ELSE SrvTeamsResult(FALSE, "Team not found", fantasyTeams)

\* PUT /fantasy-teams/{id} with a name
SrvUpdateTeam(id, name) ==
    IF \E team \in fantasyTeams : team.id = id
    THEN SrvTeamsResult(TRUE, "",
            {IF team.id = id THEN [team EXCEPT !.name = name] ELSE team :
                team \in fantasyTeams})
    ELSE SrvTeamsResult(FALSE, "Team not found", fantasyTeams)

(***************************************************************************)
(* Client: FantasyTeamsList, its handlers                                  *)
(***************************************************************************)
notListVars ==
    <<serverVars, offersVars, faVars, marketVars, teamVars, leagueVars, scoreVars,
      authVars, browserVars, managerVars>>

TeamNameInputs == {<<" ">>, <<"N", " ">>}

FreeTeamSlots ==
    IF teamsNet.sent < MaxTeamRequests
    THEN {s \in TeamCallSlots : teamsNet.calls[s].kind = "none"}
    ELSE {}

\* The list is rendered: past the loading screen.
TeamsShown == ~fantasyTeamsList.loading

TeamListed(id) == \E team \in fantasyTeamsList.teams : team.id = id

\* loadTeams, once fantasyAPI.getTeams() has answered with the teams the
\* server holds.
loadFantasyTeamsDone ==
    /\ teamsNet.load = "req"
    /\ fantasyTeamsList' = [fantasyTeamsList EXCEPT !.teams = fantasyTeams,
                                                    !.loading = FALSE]
    /\ teamsNet' = [teamsNet EXCEPT !.load = "none"]
    /\ UNCHANGED <<fantasyTeams, teamsLog, notListVars>>

\* loadTeams, once fantasyAPI.getTeams() has failed.
loadFantasyTeamsFailed ==
    /\ teamsNet.load = "req"
    /\ fantasyTeamsList' =
          [fantasyTeamsList EXCEPT !.error = "Failed to load fantasy teams: ",
                                   !.loading = FALSE]
    /\ teamsNet' = [teamsNet EXCEPT !.load = "none"]
    /\ UNCHANGED <<fantasyTeams, teamsLog, notListVars>>

\* The menu button of a team card.
toggleDropdown(teamId) ==
    /\ TeamsShown
    /\ TeamListed(teamId)
    /\ fantasyTeamsList.editingTeam = NoFantasyTeam
    /\ fantasyTeamsList' =
          [fantasyTeamsList EXCEPT !.activeDropdown =
              IF fantasyTeamsList.activeDropdown = teamId
              THEN NoFantasyTeam ELSE teamId]
    /\ UNCHANGED <<fantasyTeams, teamsNet, teamsLog, notListVars>>

\* A click elsewhere in the document while a menu is open.
handleClickOutside ==
    /\ fantasyTeamsList.activeDropdown # NoFantasyTeam
    /\ fantasyTeamsList' = [fantasyTeamsList EXCEPT !.activeDropdown = NoFantasyTeam]
    /\ UNCHANGED <<fantasyTeams, teamsNet, teamsLog, notListVars>>

\* handleDeleteTeam up to the call: declined in window.confirm it only closes
\* the menu; confirmed, the call leaves and the handler keeps the teams of
\* the render it was called in.
handleDeleteTeam(teamId, confirmed) ==
    /\ TeamsShown
    /\ TeamListed(teamId)
    /\ fantasyTeamsList.activeDropdown = teamId
    /\ IF confirmed
       THEN /\ FreeTeamSlots # {}
            /\ teamsNet' = [teamsNet EXCEPT
                  !.sent = @ + 1,
                  !.calls[CHOOSE s \in FreeTeamSlots : TRUE] =
                      [NoTeamCall EXCEPT !.kind = "delete", !.stage = "req",
                                         !.id = teamId,
                                         !.teams = fantasyTeamsList.teams]]
            /\ UNCHANGED fantasyTeamsList
       ELSE /\ fantasyTeamsList' =
                  [fantasyTeamsList EXCEPT !.activeDropdown = NoFantasyTeam]
            /\ UNCHANGED teamsNet
    /\ UNCHANGED <<fantasyTeams, teamsLog, notListVars>>

\* The rest of handleDeleteTeam, once the call has settled: on success
\* setTeams(teams.filter(t => t.id !== teamId)) with the teams the handler
\* closed over.
deleteTeamDone(s) ==
    LET m == teamsNet.calls[s] IN
    /\ m.kind = "delete"
    /\ m.stage = "resp"
    /\ IF m.ok
       THEN /\ fantasyTeamsList' =
                  [fantasyTeamsList EXCEPT
                      !.teams = {team \in m.teams : team.id # m.id},
                      !.activeDropdown = NoFantasyTeam]
            /\ teamsLog' = [teamsLog EXCEPT !.deleted = @ \cup {m.id}]
       ELSE /\ fantasyTeamsList' =
                  [fantasyTeamsList EXCEPT !.alert = "Failed to delete team: ",
                                           !.activeDropdown = NoFantasyTeam]
            /\ UNCHANGED teamsLog
    /\ teamsNet' = [teamsNet EXCEPT !.calls[s] = NoTeamCall]
    /\ UNCHANGED <<fantasyTeams, notListVars>>

\* The Rename entry of the open menu.
handleEditTeam(teamId) ==
    /\ TeamsShown
    /\ fantasyTeamsList.activeDropdown = teamId
    /\ \E team \in fantasyTeamsList.teams :
          /\ team.id = teamId
          /\ fantasyTeamsList' =
                [fantasyTeamsList EXCEPT !.editingTeam = teamId,
                                         !.newTeamName = team.name,
                                         !.activeDropdown = NoFantasyTeam]
    /\ UNCHANGED <<fantasyTeams, teamsNet, teamsLog, notListVars>>

\* The input of the rename dialog.
setNewTeamName(name) ==
    /\ fantasyTeamsList.editingTeam # NoFantasyTeam
    /\ fantasyTeamsList.newTeamName # name
    /\ fantasyTeamsList' = [fantasyTeamsList EXCEPT !.newTeamName = name]
    /\ UNCHANGED <<fantasyTeams, teamsNet, teamsLog, notListVars>>

handleCancelEdit ==
    /\ fantasyTeamsList.editingTeam # NoFantasyTeam
    /\ fantasyTeamsList' = [fantasyTeamsList EXCEPT !.editingTeam = NoFantasyTeam,
                                                    !.newTeamName = <<>>]
    /\ UNCHANGED <<fantasyTeams, teamsNet, teamsLog, notListVars>>

\* handleSaveEdit up to the call; with a blank name it returns without effect.
handleSaveEdit ==
    /\ fantasyTeamsList.editingTeam # NoFantasyTeam
    /\ trim(fantasyTeamsList.newTeamName) # <<>>
    /\ FreeTeamSlots # {}
    /\ teamsNet' = [teamsNet EXCEPT
          !.sent = @ + 1,
          !.calls[CHOOSE s \in FreeTeamSlots : TRUE] =
              [NoTeamCall EXCEPT !.kind = "update", !.stage = "req",
                                 !.id = fantasyTeamsList.editingTeam,
                                 !.name = trim(fantasyTeamsList.newTeamName),
                                 !.teams = fantasyTeamsList.teams]]
    /\ UNCHANGED <<fantasyTeams, fantasyTeamsList, teamsLog, notListVars>>

\* The rest of handleSaveEdit, once the call has settled: on success
\* setTeams(teams.map(...)) with the teams the handler closed over.
saveEditDone(s) ==
    LET m == teamsNet.calls[s] IN
    /\ m.kind = "update"
    /\ m.stage = "resp"
    /\ IF m.ok
       THEN /\ fantasyTeamsList' =
                  [fantasyTeamsList EXCEPT
                      !.teams = {IF team.id = m.id
                                 THEN [team EXCEPT !.name = m.name] ELSE team :
                                    team \in m.teams},
                      !.editingTeam = NoFantasyTeam,
                      !.newTeamName = <<>>]
            /\ teamsLog' = [teamsLog EXCEPT !.renamed = @ \cup {m.id}]
       ELSE /\ fantasyTeamsList' =
                  [fantasyTeamsList EXCEPT !.alert = "Failed to update team name: "]
            /\ UNCHANGED teamsLog
    /\ teamsNet' = [teamsNet EXCEPT !.calls[s] = NoTeamCall]
    /\ UNCHANGED <<fantasyTeams, notListVars>>

\* The server answers a delete or a rename.
ServeTeamCall(s) ==
    LET m == teamsNet.calls[s]
        res == IF m.kind = "delete" THEN SrvDeleteTeam(m.id)
                                    ELSE SrvUpdateTeam(m.id, m.name) IN
    /\ m.kind \in {"delete", "update"}
    /\ m.stage = "req"
    /\ fantasyTeams' = res.teams
    /\ teamsNet' = [teamsNet EXCEPT !.calls[s].stage = "resp",
                                    !.calls[s].ok = res.ok,
                                    !.calls[s].detail = res.detail]
    /\ UNCHANGED <<fantasyTeamsList, teamsLog, notListVars>>

TeamsNetworkError(s) ==
    /\ teamsNet.calls[s].kind \in {"delete", "update"}
    /\ teamsNet.calls[s].stage = "req"
    /\ teamsNet' = [teamsNet EXCEPT !.calls[s].stage = "resp",
                                    !.calls[s].ok = FALSE]
    /\ UNCHANGED <<fantasyTeams, fantasyTeamsList, teamsLog, notListVars>>

\* The page as mounted: useState defaults and the effect's loadTeams().
InitTeamsList ==
    /\ InitServer
    /\ OffersNotMounted
    /\ FreeAgentNotMounted
    /\ MarketNotMounted
    /\ TeamPageNotMounted
    /\ leagues = [id \in LeagueIds |-> SrvLeague(<<"L">>, 1, 2)]
    /\ joinLeagueModal = JoinModalClosed
    /\ myFantasyLeagues = JoinFormClosed
    /\ updateLeagueModal = UpdateModalClosed
    /\ leagueNet = LeagueNetIdle
    /\ ScorerNotRun
    /\ AuthNotMounted
    /\ BrowserNotMounted
    /\ fantasyTeams = {[id |-> id, name |-> <<"T">>] : id \in FantasyTeamIds}
    /\ fantasyTeamsList = [TeamsListUnmounted EXCEPT !.loading = TRUE]
    /\ teamsNet = [TeamsNetIdle EXCEPT !.load = "req"]
    /\ teamsLog = NoTeamsLog
    /\ ManagerNotMounted

NextTeamsList ==
    \/ loadFantasyTeamsDone
    \/ loadFantasyTeamsFailed
    \/ \E id \in FantasyTeamIds : toggleDropdown(id)
    \/ handleClickOutside
    \/ \E id \in FantasyTeamIds, confirmed \in BOOLEAN : handleDeleteTeam(id, confirmed)
    \/ \E s \in TeamCallSlots : deleteTeamDone(s)
    \/ \E id \in FantasyTeamIds : handleEditTeam(id)
    \/ \E name \in TeamNameInputs : setNewTeamName(name)
    \/ handleCancelEdit
    \/ handleSaveEdit
    \/ \E s \in TeamCallSlots : saveEditDone(s)
    \/ \E s \in TeamCallSlots : ServeTeamCall(s)
    \/ \E s \in TeamCallSlots : TeamsNetworkError(s)

SpecTeamsList == InitTeamsList /\ [][NextTeamsList]_vars

(***************************************************************************)
(* Two deletions or renames in flight together                             *)
(***************************************************************************)
NoTeamCallOutstanding ==
    /\ teamsNet.load = "none"
    /\ \A s \in TeamCallSlots : teamsNet.calls[s] = NoTeamCall

\* The deletion or the rename of the team has succeeded.
Changed(id) == id \in teamsLog.deleted \/ id \in teamsLog.renamed

\* The displayed list shows the team as the server holds it: not at all when
\* it was deleted, under the server's name otherwise.
Reflected(id) ==
    \A team \in fantasyTeamsList.teams :
        team.id = id => team \in fantasyTeams

\* C23: after the deletions or renames of two different teams have both
\* succeeded, the displayed list reflects both changes (neither deleted team
\* is listed), also when the second request was started before the first one
\* completed.
C23_BothChangesReflected ==
    NoTeamCallOutstanding =>
        \A a, b \in FantasyTeamIds :
            a # b /\ Changed(a) /\ Changed(b) => Reflected(a) /\ Reflected(b)


(***************************************************************************)
(* Client: LeagueManager and leagueService.getUserLeagues                  *)
(***************************************************************************)
notManagerVars ==
    <<serverVars, offersVars, faVars, marketVars, teamVars, leagueVars, scoreVars,
      authVars, browserVars, listVars>>

\* What an async function of the service gives its caller when it returns a
\* value rather than throwing.
Returned(value) == [threw |-> FALSE, value |-> value]

\* leagueService.getUserLeagues: the leagues of the answer; in the catch
\* block "return []".
getUserLeagues(m) == IF m.ok THEN Returned(m.leagues) ELSE Returned({})

ManagerRequest(id) == [NoManagerCall EXCEPT !.stage = "req", !.id = id]

\* GET /leagues: the leagues of the user.
ServeUserLeagues ==
    /\ managerNet.load.stage = "req"
    /\ managerNet' = [managerNet EXCEPT !.load.stage = "resp", !.load.ok = TRUE,
                                        !.load.leagues = userLeagues]
    /\ UNCHANGED <<userLeagues, leagueManager, notManagerVars>>

\* DELETE /leagues/{id}/leave
ServeLeave ==
    LET m == managerNet.leave IN
    /\ m.stage = "req"
    /\ userLeagues' = userLeagues \ {m.id}
    /\ managerNet' = [managerNet EXCEPT !.leave.stage = "resp",
                                        !.leave.ok = m.id \in userLeagues]
    /\ UNCHANGED <<leagueManager, notManagerVars>>

\* A call that fails on the way to the server.
ManagerNetworkError(call) ==
    /\ managerNet[call].stage = "req"
    /\ managerNet' = [managerNet EXCEPT ![call].stage = "resp", ![call].ok = FALSE]
    /\ UNCHANGED <<userLeagues, leagueManager, notManagerVars>>

\* loadLeagues, once leagueService.getUserLeagues() has settled.
loadLeaguesDone ==
    LET res == getUserLeagues(managerNet.load) IN
    /\ managerNet.load.stage = "resp"
    /\ leagueManager' =
          IF res.threw
          THEN [leagueManager EXCEPT !.error = "Failed to load your leagues",
                                     !.isLoading = FALSE]
          ELSE [leagueManager EXCEPT !.leagues = res.value, !.isLoading = FALSE]
    /\ managerNet' = [managerNet EXCEPT !.load = NoManagerCall]
    /\ UNCHANGED <<userLeagues, notManagerVars>>

\* The Leave button of a league card: handleLeaveLeague up to the call.  One
\* call of the page is in flight at a time.
handleLeaveLeague(leagueId) ==
    /\ ~leagueManager.isLoading
    /\ leagueId \in leagueManager.leagues
    /\ managerNet = ManagerNetIdle
    /\ managerNet' = [managerNet EXCEPT !.leave = ManagerRequest(leagueId)]
    /\ UNCHANGED <<userLeagues, leagueManager, notManagerVars>>

\* The rest of handleLeaveLeague: on success loadLeagues() up to its call, on
\* failure the alert.
leaveLeagueDone ==
    LET m == managerNet.leave IN
    /\ m.stage = "resp"
    /\ IF m.ok
       THEN /\ leagueManager' = [leagueManager EXCEPT !.isLoading = TRUE,
                                                      !.error = ""]
            /\ managerNet' = [managerNet EXCEPT !.leave = NoManagerCall,
                                                !.load = ManagerRequest(0)]
       ELSE /\ leagueManager' = [leagueManager EXCEPT
                                    !.alert = "Failed to leave league"]
            /\ managerNet' = [managerNet EXCEPT !.leave = NoManagerCall]
    /\ UNCHANGED <<userLeagues, notManagerVars>>

\* The user leaves or joins a league elsewhere.
MembershipChanges(id) ==
    /\ userLeagues' = IF id \in userLeagues THEN userLeagues \ {id}
                                            ELSE userLeagues \cup {id}
    /\ UNCHANGED <<leagueManager, managerNet, notManagerVars>>

\* The component as mounted: useState defaults and the effect's loadLeagues().
InitManager ==
    /\ InitServer
    /\ OffersNotMounted
    /\ FreeAgentNotMounted
    /\ MarketNotMounted
    /\ TeamPageNotMounted
    /\ leagues = [id \in LeagueIds |-> SrvLeague(<<"L">>, 1, 2)]
    /\ joinLeagueModal = JoinModalClosed
    /\ myFantasyLeagues = JoinFormClosed
    /\ updateLeagueModal = UpdateModalClosed
    /\ leagueNet = LeagueNetIdle
    /\ ScorerNotRun
    /\ AuthNotMounted
    /\ BrowserNotMounted
    /\ TeamsListNotMounted
    /\ userLeagues = LeagueIds
    /\ leagueManager = [ManagerUnmounted EXCEPT !.isLoading = TRUE]
    /\ managerNet = [ManagerNetIdle EXCEPT !.load = ManagerRequest(0)]

NextManager ==
    \/ ServeUserLeagues
    \/ ServeLeave
    \/ \E call \in {"load", "leave"} : ManagerNetworkError(call)
    \/ loadLeaguesDone
    \/ \E id \in LeagueIds : handleLeaveLeague(id)
    \/ leaveLeagueDone
    \/ \E id \in LeagueIds : MembershipChanges(id)

SpecManager == InitManager /\ [][NextManager]_vars

\* The step in which loadLeagues finishes after its request failed.
LoadFailedAndFinished ==
    /\ managerNet.load.stage = "resp"
    /\ ~managerNet.load.ok
    /\ managerNet'.load.stage = "none"

C24_Step ==
    LoadFailedAndFinished =>
        /\ leagueManager'.error = "Failed to load your leagues"
        /\ ~leagueManager'.isLoading

\* C24: when the request for the user's leagues fails, the league manager
\* ends in its error state showing 'Failed to load your leagues' (with the
\* retry control) rather than an empty list of leagues.
C24_FailedLoadShowsError == [][C24_Step]_vars


(***************************************************************************)
(* Server: deleting a league                                               *)
(***************************************************************************)
\* A league that does not exist.
NoLeague == SrvLeague(<<>>, 0, 0)

\* DELETE /leagues/{id}: the league goes, with its memberships.
SrvDeleteLeague(id) ==
    IF leagues[id] # NoLeague
    THEN [ok |-> TRUE, detail |-> "", leagues |-> [leagues EXCEPT ![id] = NoLeague],
          userLeagues |-> userLeagues \ {id}]
    ELSE [ok |-> FALSE, detail |-> "League not found", leagues |-> leagues,
          userLeagues |-> userLeagues]

(***************************************************************************)
(* Client: UpdateLeagueModal.handleDelete under LeagueManager              *)
(***************************************************************************)
notDeleteVars ==
    <<serverVars, offersVars, faVars, marketVars, teamVars, scoreVars, authVars,
      browserVars, listVars>>

\* What window.prompt returns: null when dismissed, else the text typed.
NoInput == [given |-> FALSE, text |-> ""]

Typed(text) == [given |-> TRUE, text |-> text]

PromptInputs == {NoInput, Typed("DELETE"), Typed("delete"), Typed("DELETE "), Typed("")}

\* handleUpdateLeague of LeagueManager: the Update button of a league card
\* mounts the modal on that league.
handleUpdateLeague(id) ==
    /\ ~leagueManager.isLoading
    /\ id \in leagueManager.leagues
    /\ openUpdateModal(id)

\* leagueService.deleteLeague up to the call.  leagueService.ts sends
\* api.delete(`/leagues/${leagueId}`); the module whose catch is throwApiError
\* calls leagueAPI.deleteLeague, which leagueAPI of api.ts does not define,
\* so the call throws a TypeError before any request and the catch rethrows
\* its message.
deleteLeague(build, leagueId) ==
    IF build = "leagueService.ts"
    THEN [sent |-> TRUE,
          request |-> [NoLeagueCall EXCEPT !.stage = "req", !.league_id = leagueId],
          message |-> ""]
    ELSE [sent |-> FALSE, request |-> NoLeagueCall,
          message |-> resolveApiErrorMessage(
                         [message |-> "leagueAPI.deleteLeague is not a function",
                          response |-> [present |-> FALSE, detail |-> ""]],
                         "Failed to delete league")]

\* handleDelete up to the call.  The button is disabled while isSubmitting or
\* isDeleting.
handleDelete(userInput) ==
    /\ updateLeagueModal.isOpen
    /\ ~updateLeagueModal.isSubmitting
    /\ ~updateLeagueModal.isDeleting
    /\ IF userInput # Typed("DELETE")
       THEN /\ updateLeagueModal' =
                  IF userInput # NoInput
                  THEN [updateLeagueModal EXCEPT !.error =
                           "Delete cancelled. You must type \"DELETE\" to confirm."]
                  ELSE updateLeagueModal
            /\ UNCHANGED leagueNet
       ELSE \E build \in ServiceBuilds :
               LET call == deleteLeague(build, updateLeagueModal.league_id) IN
               IF call.sent
               THEN /\ updateLeagueModal' =
                          [updateLeagueModal EXCEPT !.error = "", !.isDeleting = TRUE]
                    /\ leagueNet' = [leagueNet EXCEPT !.delete = call.request]
               ELSE /\ updateLeagueModal' =
                          [updateLeagueModal EXCEPT !.error = call.message,
                                                    !.isDeleting = FALSE]
                    /\ UNCHANGED leagueNet
    /\ UNCHANGED <<leagues, joinLeagueModal, myFantasyLeagues, managerVars,
                   notDeleteVars>>

\* The server answers the delete.
ServeDelete ==
    LET res == SrvDeleteLeague(leagueNet.delete.league_id) IN
    /\ leagueNet.delete.stage = "req"
    /\ leagues' = res.leagues
    /\ userLeagues' = res.userLeagues
    /\ leagueNet' = [leagueNet EXCEPT !.delete.stage = "resp", !.delete.ok = res.ok,
                                      !.delete.reply = IF res.ok THEN "ok" ELSE "http",
                                      !.delete.detail = res.detail]
    /\ UNCHANGED <<joinLeagueModal, myFantasyLeagues, updateLeagueModal,
                   leagueManager, managerNet, notDeleteVars>>

\* The delete does not reach the server.
DeleteNetworkError ==
    /\ leagueNet.delete.stage = "req"
    /\ leagueNet' = [leagueNet EXCEPT !.delete.stage = "resp", !.delete.ok = FALSE,
                                      !.delete.reply = "network"]
    /\ UNCHANGED <<leagues, joinLeagueModal, myFantasyLeagues, updateLeagueModal,
                   managerVars, notDeleteVars>>

\* handleDelete after the await: onSuccess() is loadLeagues of the manager, up
\* to its call, and onClose() unmounts the modal; the catch shows the message
\* of the error leagueService.deleteLeague throws.
deleteDone ==
    /\ leagueNet.delete.stage = "resp"
    /\ IF leagueNet.delete.ok
       THEN /\ updateLeagueModal' = UpdateModalClosed
            /\ leagueManager' = [leagueManager EXCEPT !.isLoading = TRUE, !.error = ""]
            /\ managerNet' = [managerNet EXCEPT !.load = ManagerRequest(0)]
       ELSE /\ updateLeagueModal' =
                  [updateLeagueModal EXCEPT !.error = "Failed to delete league",
                                            !.isDeleting = FALSE]
            /\ UNCHANGED <<leagueManager, managerNet>>
    /\ leagueNet' = [leagueNet EXCEPT !.delete = NoLeagueCall]
    /\ UNCHANGED <<leagues, joinLeagueModal, myFantasyLeagues, userLeagues,
                   notDeleteVars>>

\* The league manager mounted and loaded, the modal not yet open.
InitDelete ==
    /\ InitServer
    /\ OffersNotMounted
    /\ FreeAgentNotMounted
    /\ MarketNotMounted
    /\ TeamPageNotMounted
    /\ InitLeagues
    /\ joinLeagueModal = JoinModalClosed
    /\ myFantasyLeagues = JoinFormClosed
    /\ updateLeagueModal = UpdateModalClosed
    /\ leagueNet = LeagueNetIdle
    /\ ScorerNotRun
    /\ AuthNotMounted
    /\ BrowserNotMounted
    /\ TeamsListNotMounted
    /\ userLeagues = LeagueIds
    /\ leagueManager = [ManagerUnmounted EXCEPT !.leagues = LeagueIds]
    /\ managerNet = ManagerNetIdle

NextDelete ==
    \/ \E id \in LeagueIds : handleUpdateLeague(id)
    \/ \E userInput \in PromptInputs : handleDelete(userInput)
    \/ ServeDelete
    \/ DeleteNetworkError
    \/ deleteDone
    \/ closeUpdateModal
    \/ \E name \in NameInputs : setFormName(name)
    \/ ServeUserLeagues
    \/ ManagerNetworkError("load")
    \/ loadLeaguesDone
    \/ \E id \in LeagueIds : OtherUserJoins(id)

SpecDelete == InitDelete /\ [][NextDelete]_vars

\* A delete request for the league leaves in this step.
DeleteSent(id) ==
    /\ leagueNet.delete.stage = "none"
    /\ leagueNet'.delete.stage = "req"
    /\ leagueNet'.delete.league_id = id

C27_Step ==
    /\ \A userInput \in PromptInputs :
          handleDelete(userInput) =>
             (DeleteSent(updateLeagueModal.league_id) <=> userInput = Typed("DELETE"))
    /\ \A id \in LeagueIds :
          DeleteSent(id) => id = updateLeagueModal.league_id
                            /\ handleDelete(Typed("DELETE"))
    /\ \A id \in LeagueIds :
          leagues[id] # NoLeague /\ leagues'[id] = NoLeague
             => leagueNet.delete.stage = "req" /\ leagueNet.delete.league_id = id
    /\ leagueNet.delete.stage = "resp" /\ leagueNet.delete.ok
       /\ leagueNet'.delete.stage = "none"
          => managerNet'.load.stage = "req" /\ ~updateLeagueModal'.isOpen

\* C27: a league is deleted if and only if its creator types exactly 'DELETE'
\* at the confirmation prompt: any other input, or dismissing the prompt,
\* sends no delete request, and the exact input sends a delete request for
\* that league, whose success invokes onSuccess and then onClose.
C27_DeleteOnlyOnExactInput == [][C27_Step]_vars

====
